---- MODULE Spec2Model ----
(***************************************************************************)
(* Model of the event-validation pipeline of freeradius-multi-server:      *)
(*   src/src/rules/rules.py        leaf rules and the all/any combinators  *)
(*   src/src/rules/rules_tools.py  build_rule (predicates and their labels)*)
(*   src/src/Validator.py          Validator.__init__, validate and the    *)
(*                                 consumption loop start_validating       *)
(*                                                                         *)
(* Strings the code inspects character by character (event values, regex   *)
(* patterns) are sequences of one-character strings.  Labels               *)
(* (friendly_str) are TLA+ strings built by concatenation, as build_rule   *)
(* builds them.                                                            *)
(***************************************************************************)
EXTENDS Integers, Sequences, FiniteSets, TLC

(***************************************************************************)
(* Bounds of the model.                                                    *)
(***************************************************************************)
\* validate calls (resp. events sent by the host) per behaviour
MaxEvents == 2
\* rules registered in one rule map, over all attributes
MaxRules == 2

(***************************************************************************)
(* Text helpers.                                                           *)
(***************************************************************************)
Digits == {"0", "1", "2", "3", "4", "5", "6", "7", "8", "9"}

DigitVal(c) ==
  CASE c = "0" -> 0 [] c = "1" -> 1 [] c = "2" -> 2 [] c = "3" -> 3
    [] c = "4" -> 4 [] c = "5" -> 5 [] c = "6" -> 6 [] c = "7" -> 7
    [] c = "8" -> 8 [] c = "9" -> 9

\* "".join(cs): the text of a character sequence
RECURSIVE Text(_)
Text(cs) == IF cs = <<>> THEN "" ELSE Head(cs) \o Text(Tail(cs))

\* ", ".join(parts), parts a sequence of strings
RECURSIVE JoinComma(_)
JoinComma(parts) ==
  IF parts = <<>> THEN ""
  ELSE IF Len(parts) = 1 THEN parts[1]
  ELSE parts[1] \o ", " \o JoinComma(Tail(parts))

\* str.split(":"): always at least one part
RECURSIVE SplitColon(_, _)
SplitColon(cs, cur) ==
  IF cs = <<>> THEN <<cur>>
  ELSE IF Head(cs) = ":" THEN <<cur>> \o SplitColon(Tail(cs), <<>>)
  ELSE SplitColon(Tail(cs), Append(cur, Head(cs)))

str_split(cs) == SplitColon(cs, <<>>)

\* a non-empty string of decimal digits
IsDigits(part) ==
  /\ part # <<>>
  /\ \A i \in 1..Len(part) : part[i] \in Digits

\* str.lower() of one character, for the letters float() and json.loads
\* look at
Lower(c) ==
  CASE c = "A" -> "a" [] c = "E" -> "e" [] c = "F" -> "f" [] c = "I" -> "i"
    [] c = "N" -> "n" [] c = "T" -> "t" [] c = "Y" -> "y" [] OTHER -> c

LowerText(part) == [i \in DOMAIN part |-> Lower(part[i])]

\* the position of the exponent marker of digits [eE] digits, 0 if the
\* string has not that form
ExponentAt(part) ==
  LET at == { i \in 1..Len(part) :
                /\ Lower(part[i]) = "e"
                /\ IsDigits(SubSeq(part, 1, i - 1))
                /\ IsDigits(SubSeq(part, i + 1, Len(part))) }
  IN IF at = {} THEN 0 ELSE CHOOSE i \in at : TRUE

InfText == { << "i", "n", "f" >>,
             << "i", "n", "f", "i", "n", "i", "t", "y" >> }
NanText == << "n", "a", "n" >>

\* float(part) does not raise ValueError.  Over strings of letters and
\* digits (no sign, point, underscore or blank) float() parses the digit
\* strings, digits [eE] digits, and inf, infinity and nan in any case
ParsesAsFloat(part) ==
  \/ IsDigits(part)
  \/ ExponentAt(part) # 0
  \/ LowerText(part) \in InfText
  \/ LowerText(part) = NanText

\* int(part) of a string of a few decimal digits
RECURSIVE FloatOf(_, _)
FloatOf(part, acc) ==
  IF part = <<>> THEN acc
  ELSE FloatOf(Tail(part), 10 * acc + DigitVal(Head(part)))

\* a digit string without its leading zeros: a natural number in decimal
\* digits, <<>> being zero
RECURSIVE StripZeros(_)
StripZeros(part) ==
  IF part # <<>> /\ Head(part) = "0" THEN StripZeros(Tail(part)) ELSE part

\* the decimal digits of the natural number n
RECURSIVE DecimalOf(_)
DecimalOf(n) ==
  IF n = 0 THEN <<>>
  ELSE Append(DecimalOf(n \div 10),
              CHOOSE c \in Digits : DigitVal(c) = n % 10)

\* a < b for natural numbers in decimal digits
DigitsLess(a, b) ==
  \/ Len(a) < Len(b)
  \/ /\ Len(a) = Len(b)
     /\ \E i \in 1..Len(a) :
          /\ SubSeq(a, 1, i - 1) = SubSeq(b, 1, i - 1)
          /\ DigitVal(a[i]) < DigitVal(b[i])

\* 2^1024 - 2^970, halfway between the largest double and 2^1024: float()
\* rounds a number to inf from there on
Overflow ==
  << "1", "7", "9", "7", "6", "9", "3", "1", "3", "4", "8", "6",
     "2", "3", "1", "5", "8", "0", "7", "9", "3", "7", "2", "8",
     "9", "7", "1", "4", "0", "5", "3", "0", "3", "4", "1", "5",
     "0", "7", "9", "9", "3", "4", "1", "3", "2", "7", "1", "0",
     "0", "3", "7", "8", "2", "6", "9", "3", "6", "1", "7", "3",
     "7", "7", "8", "9", "8", "0", "4", "4", "4", "9", "6", "8",
     "2", "9", "2", "7", "6", "4", "7", "5", "0", "9", "4", "6",
     "6", "4", "9", "0", "1", "7", "9", "7", "7", "5", "8", "7",
     "2", "0", "7", "0", "9", "6", "3", "3", "0", "2", "8", "6",
     "4", "1", "6", "6", "9", "2", "8", "8", "7", "9", "1", "0",
     "9", "4", "6", "5", "5", "5", "5", "4", "7", "8", "5", "1",
     "9", "4", "0", "4", "0", "2", "6", "3", "0", "6", "5", "7",
     "4", "8", "8", "6", "7", "1", "5", "0", "5", "8", "2", "0",
     "6", "8", "1", "9", "0", "8", "9", "0", "2", "0", "0", "0",
     "7", "0", "8", "3", "8", "3", "6", "7", "6", "2", "7", "3",
     "8", "5", "4", "8", "4", "5", "8", "1", "7", "7", "1", "1",
     "5", "3", "1", "7", "6", "4", "4", "7", "5", "7", "3", "0",
     "2", "7", "0", "0", "6", "9", "8", "5", "5", "5", "7", "1",
     "3", "6", "6", "9", "5", "9", "6", "2", "2", "8", "4", "2",
     "9", "1", "4", "8", "1", "9", "8", "6", "0", "8", "3", "4",
     "9", "3", "6", "4", "7", "5", "2", "9", "2", "7", "1", "9",
     "0", "7", "4", "1", "6", "8", "4", "4", "4", "3", "6", "5",
     "5", "1", "0", "7", "0", "4", "3", "4", "2", "7", "1", "1",
     "5", "5", "9", "6", "9", "9", "5", "0", "8", "0", "9", "3",
     "0", "4", "2", "8", "8", "0", "1", "7", "7", "9", "0", "4",
     "1", "7", "4", "4", "9", "7", "7", "9", "2" >>

\* float(part) for a string that parses: when `kind` is "finite", `val` is
\* the number in decimal digits (exact below 2^53; a larger double is
\* rounded).  A number that overflows the doubles is inf
float(part) ==
  IF LowerText(part) = NanText THEN [kind |-> "nan", val |-> <<>>]
  ELSE IF LowerText(part) \in InfText THEN [kind |-> "inf", val |-> <<>>]
  ELSE LET e == ExponentAt(part)
           mantissa ==
             StripZeros(IF e = 0 THEN part ELSE SubSeq(part, 1, e - 1))
           exponent ==
             StripZeros(IF e = 0 THEN <<>>
                        ELSE SubSeq(part, e + 1, Len(part)))
       IN IF mantissa = <<>> THEN [kind |-> "finite", val |-> <<>>]
          ELSE IF Len(exponent) > 3 THEN [kind |-> "inf", val |-> <<>>]
          ELSE LET val == mantissa
                            \o [i \in 1..FloatOf(exponent, 0) |-> "0"]
               IN IF DigitsLess(val, Overflow)
                  THEN [kind |-> "finite", val |-> val]
                  ELSE [kind |-> "inf", val |-> <<>>]

\* minimum <= x <= maximum for integer bounds: false for nan, and for inf,
\* which exceeds every maximum
Between(minimum, x, maximum) ==
  /\ x.kind = "finite"
  /\ minimum <= 0 \/ ~DigitsLess(x.val, DecimalOf(minimum))
  /\ maximum >= 0
  /\ ~DigitsLess(DecimalOf(maximum), x.val)

(***************************************************************************)
(* Event values and rule configurations.                                   *)
(*                                                                         *)
(* A rule configuration is one `condition: params` entry of a trigger of   *)
(* verify.triggers: `may` and `name` are the condition (may_ prefix and    *)
(* the rest, lower case), `params` the parameters of a leaf rule, `sub`    *)
(* the sub-conditions of a combinator in the order of the mapping.         *)
(***************************************************************************)
Attributes == {"status", "count"}

\* "OK", "O:3", "O:9", "X:3", "X:9"
Values ==
  { <<"O", "K">>, <<"O", ":", "3">>, <<"O", ":", "9">>,
    <<"X", ":", "3">>, <<"X", ":", "9">> }

NoParams == [reg_pattern |-> <<>>, minimum |-> 0, maximum |-> 0, msg |-> <<>>]

LeafCfg(may, name, params) ==
  [may |-> may, name |-> name, params |-> params, sub |-> <<>>]

CtlCfg(may, name, sub) ==
  [may |-> may, name |-> name, params |-> NoParams, sub |-> sub]

PatternCfg(may, name, pat) ==
  LeafCfg(may, name, [NoParams EXCEPT !.reg_pattern = pat])

RangeCfg(may, lo, hi) ==
  LeafCfg(may, "range", [NoParams EXCEPT !.minimum = lo, !.maximum = hi])

MsgCfg(may, name) ==
  LeafCfg(may, name, [NoParams EXCEPT !.msg = <<"m">>])

\* pattern: {reg_pattern: OK}
CfgPatOK == PatternCfg(FALSE, "pattern", <<"O", "K">>)
\* range: {minimum: 1, maximum: 5}
CfgRange == RangeCfg(FALSE, 1, 5)
\* never_fire: {msg: m}
CfgNever == MsgCfg(FALSE, "never_fire")
\* fail: {msg: m}
CfgFail == MsgCfg(FALSE, "fail")
\* may_pattern: {reg_pattern: O}
CfgMayPat == PatternCfg(TRUE, "pattern", <<"O">>)
\* all: {pattern: {reg_pattern: O}, range: {minimum: 1, maximum: 5},
\*       regex: {reg_pattern: "O:"}}
CfgAll ==
  CtlCfg(FALSE, "all",
         << PatternCfg(FALSE, "pattern", <<"O">>), CfgRange,
            PatternCfg(FALSE, "regex", <<"O", ":">>) >>)
\* any: {pattern: {reg_pattern: OK}, range: {minimum: 1, maximum: 5},
\*       regex: {reg_pattern: "O:"}}
CfgAny ==
  CtlCfg(FALSE, "any",
         << CfgPatOK, CfgRange, PatternCfg(FALSE, "regex", <<"O", ":">>) >>)
\* any: {all: {pattern: {reg_pattern: X}, range: {minimum: 1, maximum: 5}},
\*       regex: {reg_pattern: "O:"}}
CfgAnyOfAll ==
  CtlCfg(FALSE, "any",
         << CtlCfg(FALSE, "all",
                   << PatternCfg(FALSE, "pattern", <<"X">>), CfgRange >>),
            PatternCfg(FALSE, "regex", <<"O", ":">>) >>)

RuleConfigs ==
  { CfgPatOK, CfgRange, CfgNever, CfgFail, CfgMayPat, CfgAll, CfgAny,
    CfgAnyOfAll }

(***************************************************************************)
(* rules.py: RULES_MAP and CONTROL_MAP, the leaf rules.                    *)
(***************************************************************************)
\* RULES_MAP: condition name -> rule function
RULES_MAP ==
  [n \in {"never_fire", "fail", "pass", "fire", "pattern", "regex",
          "range", "within_range", "code", "json"} |->
     CASE n \in {"never_fire", "fail"} -> "never_fire"
       [] n \in {"pass", "fire"} -> "pass_rule"
       [] n \in {"pattern", "regex"} -> "pattern"
       [] n \in {"range", "within_range"} -> "within_range"
       [] n = "code" -> "code"
       [] n = "json" -> "json_rule"]

\* CONTROL_MAP: condition name -> combinator
CONTROL_MAP ==
  [n \in {"all_pass", "all", "any_pass", "any"} |->
     IF n \in {"all_pass", "all"} THEN "all_pass" ELSE "any_pass"]

never_fire(msg, string) == FALSE

pass_rule(msg, string) == TRUE

\* re.match of a pattern without metacharacters: the value starts with it
pattern(reg_pattern, string) ==
  /\ Len(reg_pattern) <= Len(string)
  /\ SubSeq(string, 1, Len(reg_pattern)) = reg_pattern

within_range(minimum, maximum, string) ==
  LET string_parts == str_split(string)
      part == IF Len(string_parts) = 1 THEN string_parts[1]
              ELSE string_parts[2]
  IN IF ~ParsesAsFloat(part) THEN FALSE
     ELSE Between(minimum, float(part), maximum)

\* code: {block: ...}, the custom code rule
CodeCfg(may, block) == LeafCfg(may, "code", [block |-> block])

\* json: {key: {condition: args, ...}, ...}: kwargs is the sequence of the
\* items of the mapping, [key, conditions], conditions a sequence of leaf
\* rule configurations
JsonCfg(may, kwargs) == LeafCfg(may, "json", [kwargs |-> kwargs])

\* code(block, logger, string), lines 223-256, for the blocks of the
\* model: the block is the body of a function of `string`; what it returns
\* is the result (None without a return), an exception gives False
code(block, string) ==
  CASE block = "return True" -> TRUE
    [] block = "return False" -> FALSE
    [] block = "return string == 'OK'" -> string = << "O", "K" >>
    [] block = "pass" -> FALSE
    [] block = "raise ValueError()" -> FALSE

\* json.loads over strings of letters, digits and ':' (no quote, bracket
\* or brace): only a number or one of the literals parses, to a scalar;
\* `truthy` is bool(data).  An integer goes through int(), which raises
\* ValueError over sys.int_info.default_max_str_digits = 4300 digits; a
\* number with an exponent goes through float(), which has no such limit
JsonLoads(string) ==
  LET e == ExponentAt(string)
      mantissa == IF e = 0 THEN string ELSE SubSeq(string, 1, e - 1)
      number == /\ IsDigits(mantissa)
                /\ e = 0 => IsDigits(string) /\ Len(string) <= 4300
                /\ mantissa[1] = "0" => Len(mantissa) = 1
  IN IF number
     THEN [ok |-> TRUE, truthy |-> mantissa # << "0" >>]
     ELSE IF string \in { << "t", "r", "u", "e" >>, << "N", "a", "N" >>,
                          << "I", "n", "f", "i", "n", "i", "t", "y" >> }
     THEN [ok |-> TRUE, truthy |-> TRUE]
     ELSE IF string \in { << "f", "a", "l", "s", "e" >>,
                          << "n", "u", "l", "l" >> }
     THEN [ok |-> TRUE, truthy |-> FALSE]
     ELSE [ok |-> FALSE, truthy |-> FALSE]

\* json_rule(logger, string, **kwargs), lines 326-355, on such a string:
\* safe_json_load returns {} for what does not parse and `not data` ends
\* the rule; for a scalar `key not in string` of __json_rule raises
\* TypeError, which json_rule catches, unless there is no key at all
json_rule(kwargs, string) ==
  LET data == JsonLoads(string)
  IN data.ok /\ data.truthy /\ kwargs = <<>>

(***************************************************************************)
(* rules_tools.py: build_rule.  A built predicate is a record: `func` the  *)
(* function it calls, `rule_params` / `methods` what the lambda closes     *)
(* over, `friendly_str` its label (`labelled` false: the attribute is      *)
(* not set, the predicate of an unknown condition).                        *)
(***************************************************************************)
\* condition.lower(), for a condition already in lower case
ConditionStr(cfg) == (IF cfg.may THEN "may_" ELSE "") \o cfg.name

RECURSIVE ReprArgs(_)
RECURSIVE ReprConditions(_)

\* repr() of the args dict of a condition nested in a json rule, as it is
\* configured
ReprArgs(cfg) ==
  IF cfg.name \notin DOMAIN RULES_MAP THEN "{}"
  ELSE CASE RULES_MAP[cfg.name] = "pattern" ->
              "{'reg_pattern': '" \o Text(cfg.params.reg_pattern) \o "'}"
         [] RULES_MAP[cfg.name] = "within_range" ->
              "{'minimum': " \o ToString(cfg.params.minimum)
                \o ", 'maximum': " \o ToString(cfg.params.maximum) \o "}"
         [] RULES_MAP[cfg.name] = "code" ->
              \* repr() of a str delimits it with " when it holds a ' and
              \* no ", which of the blocks of the model one does
              LET q == IF cfg.params.block = "return string == 'OK'"
                       THEN "\"" ELSE "'"
              IN "{'block': " \o q \o cfg.params.block \o q \o "}"
         [] RULES_MAP[cfg.name] = "json_rule" ->
              "{" \o JoinComma([i \in 1..Len(cfg.params.kwargs) |->
                                  "'" \o cfg.params.kwargs[i].key \o "': "
                                    \o ReprConditions(
                                         cfg.params.kwargs[i].conditions)])
                  \o "}"
         [] OTHER -> "{'msg': '" \o Text(cfg.params.msg) \o "'}"

\* repr() of the conditions dict of one key of a json rule: the conditions
\* as they are written, a may_ prefix included
ReprConditions(conditions) ==
  "{" \o JoinComma([i \in 1..Len(conditions) |->
                      "'" \o ConditionStr(conditions[i]) \o "': "
                        \o ReprArgs(conditions[i])])
      \o "}"

\* ', '.join(f'{k}={v}' for k, v in rule_params.items())
ParamsStr(func, params) ==
  CASE func = "pattern" -> "reg_pattern=" \o Text(params.reg_pattern)
    [] func = "within_range" ->
         "minimum=" \o ToString(params.minimum) \o ", maximum="
           \o ToString(params.maximum)
    [] func = "json_rule" ->
         JoinComma([i \in 1..Len(params.kwargs) |->
                      params.kwargs[i].key \o "="
                        \o ReprConditions(params.kwargs[i].conditions)])
    [] OTHER -> "msg=" \o Text(params.msg)

RECURSIVE build_rule(_)
RECURSIVE BuildMethods(_)

\* the loop over params.keys() of a combinator
BuildMethods(sub) ==
  IF sub = <<>> THEN <<>>
  ELSE <<build_rule(Head(sub))>> \o BuildMethods(Tail(sub))

build_rule(cfg) ==
  IF cfg.name \in DOMAIN RULES_MAP
  THEN [func |-> RULES_MAP[cfg.name], may |-> cfg.may, cond |-> cfg.name,
        rule_params |-> cfg.params, methods |-> <<>>, labelled |-> TRUE,
        friendly_str |->
          IF cfg.name = "code" THEN ConditionStr(cfg) \o ": code block"
          ELSE ConditionStr(cfg) \o ": "
                 \o ParamsStr(RULES_MAP[cfg.name], cfg.params)]
  ELSE IF cfg.name \in DOMAIN CONTROL_MAP
  THEN LET methods == BuildMethods(cfg.sub)
       IN IF \E i \in 1..Len(methods) : ~methods[i].labelled
          THEN \* m.friendly_str of a predicate without the attribute (or
               \* the build of a child) raised AttributeError
               [func |-> "AttributeError", may |-> cfg.may,
                cond |-> cfg.name, rule_params |-> NoParams,
                methods |-> <<>>, labelled |-> FALSE, friendly_str |-> ""]
          ELSE [func |-> CONTROL_MAP[cfg.name], may |-> cfg.may,
                cond |-> cfg.name, rule_params |-> NoParams,
                methods |-> methods, labelled |-> TRUE,
                friendly_str |->
                  ConditionStr(cfg) \o ": "
                    \o JoinComma([i \in 1..Len(methods) |->
                                    methods[i].friendly_str])]
  ELSE [func |-> "lambda_false", may |-> cfg.may, cond |-> cfg.name,
        rule_params |-> NoParams, methods |-> <<>>, labelled |-> FALSE,
        friendly_str |-> ""]

\* the predicates the model registers in rule maps
Rules == { build_rule(cfg) : cfg \in RuleConfigs }

(***************************************************************************)
(* Calling a predicate.  The outcome of a call is a record: `ret` is       *)
(* "True", "False" or "Raise" (SingleRuleFailure raised, `msg` its         *)
(* message); `calls` lists the labels of the predicates invoked by the     *)
(* call, in the order they were invoked.                                   *)
(***************************************************************************)
Returned(b, calls) ==
  [ret |-> IF b THEN "True" ELSE "False", msg |-> "", calls |-> calls]

Raised(msg, calls) == [ret |-> "Raise", msg |-> msg, calls |-> calls]

RECURSIVE Call(_, _)
RECURSIVE all_pass(_, _)
RECURSIVE any_pass(_, _)

\* all_pass that goes on calling the remaining methods after one returned
\* false, and raises for the first failure afterwards
all_pass_no_stop(methods, string) ==
  IF methods = <<>> THEN Returned(TRUE, <<>>)
  ELSE LET r == Call(Head(methods), string)
           rest == all_pass(Tail(methods), string)
       IN IF r.ret = "Raise" THEN r
          ELSE IF r.ret = "False"
          THEN Raised("all: " \o Head(methods).friendly_str,
                      r.calls \o rest.calls)
          ELSE [rest EXCEPT !.calls = r.calls \o @]

\* rules.py all_pass: `for method in methods`, head first
all_pass(methods, string) ==
  IF methods = <<>> THEN Returned(TRUE, <<>>)
  ELSE LET r == Call(Head(methods), string)
       IN IF r.ret = "Raise" THEN r
          ELSE IF r.ret = "False"
          THEN Raised("all: " \o Head(methods).friendly_str, r.calls)
          ELSE LET rest == all_pass(Tail(methods), string)
               IN [rest EXCEPT !.calls = r.calls \o @]

\* rules.py any_pass: `for method in methods`, head first
any_pass(methods, string) ==
  IF methods = <<>> THEN Returned(FALSE, <<>>)
  ELSE LET r == Call(Head(methods), string)
       IN IF r.ret = "Raise" THEN r
          ELSE IF r.ret = "True" THEN Returned(TRUE, r.calls)
          ELSE LET rest == any_pass(Tail(methods), string)
               IN [rest EXCEPT !.calls = r.calls \o @]

\* method(x): the lambda build_rule returned
Call(rule, string) ==
  LET me == <<rule.friendly_str>>
  IN CASE rule.func = "never_fire" ->
            Returned(never_fire(rule.rule_params.msg, string), me)
       [] rule.func = "pass_rule" ->
            Returned(pass_rule(rule.rule_params.msg, string), me)
       [] rule.func = "pattern" ->
            Returned(pattern(rule.rule_params.reg_pattern, string), me)
       [] rule.func = "within_range" ->
            Returned(within_range(rule.rule_params.minimum,
                                  rule.rule_params.maximum, string), me)
       [] rule.func = "code" ->
            Returned(code(rule.rule_params.block, string), me)
       [] rule.func = "json_rule" ->
            Returned(json_rule(rule.rule_params.kwargs, string), me)
       [] rule.func = "all_pass" ->
            LET r == all_pass(rule.methods, string)
            IN [r EXCEPT !.calls = me \o @]
       [] rule.func = "any_pass" ->
            LET r == any_pass(rule.methods, string)
            IN [r EXCEPT !.calls = me \o @]
       [] OTHER -> Returned(FALSE, me)

(***************************************************************************)
(* Validator.py: the tracking state.                                       *)
(*                                                                         *)
(* __passed_rules and __failed_rules are dicts from attribute to a list.   *)
(* A list entry is a record: kind "str" is a label (friendly_str), kind    *)
(* "exc" a SingleRuleFailure object (`text` its message, `id` its          *)
(* identity: exception objects compare by identity), kind "dict" the `{}`  *)
(* validate uses for a predicate without friendly_str.                     *)
(***************************************************************************)
StrEntry(s) == [kind |-> "str", text |-> s, id |-> 0]
ExcEntry(msg, id) == [kind |-> "exc", text |-> msg, id |-> id]
DictEntry == [kind |-> "dict", text |-> "", id |-> 0]

\* x in list
InList(x, list) == \E i \in 1..Len(list) : list[i] = x

\* list.remove(x): removes the first occurrence
RECURSIVE ListRemove(_, _)
ListRemove(list, x) ==
  IF list = <<>> THEN <<>>
  ELSE IF Head(list) = x THEN Tail(list)
  ELSE <<Head(list)>> \o ListRemove(Tail(list), x)

\* a dict as an explicitly enumerated function (f @@ f is f)
Dict(f) == f @@ f

\* d[key] = [] when key is not in d
WithKey(d, key) == IF key \in DOMAIN d THEN d ELSE d @@ (key :> <<>>)

\* del d[key]
DelKey(d, key) == Dict([k \in DOMAIN d \ {key} |-> d[k]])

\* d[key] as a list, empty when the key is absent
ListAt(d, key) == IF key \in DOMAIN d THEN d[key] ELSE <<>>

\* friendly_str.startswith("never_fire") or friendly_str.startswith("fail"):
\* friendly_str begins with condition.lower(), and "never_fire" and "fail"
\* are the only condition names with such a prefix
SeededPassed_never_fire_only(rule) == ~rule.may /\ rule.cond = "never_fire"

SeededPassed(rule) == ~rule.may /\ rule.cond \in {"never_fire", "fail"}

\* friendly_str.startswith("may_")
SeededUntracked(rule) == rule.may

\* labels __init__ appends to __passed_rules[key], in rule order
RECURSIVE SeedPassedList(_)
SeedPassedList(rules) ==
  IF rules = <<>> THEN <<>>
  ELSE (IF SeededPassed(Head(rules))
        THEN <<StrEntry(Head(rules).friendly_str)>> ELSE <<>>)
       \o SeedPassedList(Tail(rules))

\* labels __init__ appends to __failed_rules[key], in rule order
RECURSIVE SeedFailedList(_)
SeedFailedList(rules) ==
  IF rules = <<>> THEN <<>>
  ELSE (IF ~SeededPassed(Head(rules)) /\ ~SeededUntracked(Head(rules))
        THEN <<StrEntry(Head(rules).friendly_str)>> ELSE <<>>)
       \o SeedFailedList(Tail(rules))

\* Validator.__init__: a key is created when its first label is appended
InitPassedRules(rmap) ==
  Dict([k \in {a \in DOMAIN rmap : SeedPassedList(rmap[a]) # <<>>} |->
          SeedPassedList(rmap[k])])

InitFailedRules(rmap) ==
  Dict([k \in {a \in DOMAIN rmap : SeedFailedList(rmap[a]) # <<>>} |->
          SeedFailedList(rmap[k])])

(***************************************************************************)
(* Validator.validate.  A tracking state `st` is                           *)
(* [passed, failed, nexc, evals]: the two dicts, the number of             *)
(* SingleRuleFailure objects created so far, and the outcomes of the       *)
(* `rule(value)` calls of this validate call: evals[j] is the outcome of   *)
(* the j-th rule of the attribute.                                         *)
(***************************************************************************)
\* lines 176-194: the rule returned true
MarkPassed(st, attribute, friendly_str) ==
  LET p1 == WithKey(st.passed, attribute)
      p2 == IF ~InList(friendly_str, p1[attribute])
            THEN [p1 EXCEPT ![attribute] = Append(@, friendly_str)]
            ELSE p1
      f2 == IF /\ friendly_str.kind = "str"
               /\ attribute \in DOMAIN st.failed
               /\ InList(friendly_str, st.failed[attribute])
            THEN LET removed == ListRemove(st.failed[attribute], friendly_str)
                 IN IF Len(removed) = 0 THEN DelKey(st.failed, attribute)
                    ELSE [st.failed EXCEPT ![attribute] = removed]
            ELSE st.failed
  IN [st EXCEPT !.passed = p2, !.failed = f2]

\* lines 195-201: the rule raised SingleRuleFailure; e is a new object
MarkRaised(st, attribute, msg) ==
  LET e == ExcEntry(msg, st.nexc + 1)
      f1 == WithKey(st.failed, attribute)
      f2 == IF ~InList(e, f1[attribute])
            THEN [f1 EXCEPT ![attribute] = Append(@, e)]
            ELSE f1
  IN [st EXCEPT !.failed = f2, !.nexc = @ + 1]

\* the false branch without lines 208-213: the label stays in passed
MarkFailed_keeps_passed(st, attribute, friendly_str) ==
  LET f1 == WithKey(st.failed, attribute)
  IN IF ~InList(friendly_str, f1[attribute])
     THEN [st EXCEPT
             !.failed = [f1 EXCEPT ![attribute] = Append(@, friendly_str)]]
     ELSE [st EXCEPT !.failed = f1]

\* lines 203-213: the rule returned false
MarkFailed(st, attribute, friendly_str) ==
  LET f1 == WithKey(st.failed, attribute)
  IN IF ~InList(friendly_str, f1[attribute])
     THEN [st EXCEPT
             !.failed = [f1 EXCEPT ![attribute] = Append(@, friendly_str)],
             !.passed =
               IF /\ attribute \in DOMAIN st.passed
                  /\ InList(friendly_str, st.passed[attribute])
               THEN [st.passed EXCEPT
                       ![attribute] = ListRemove(@, friendly_str)]
               ELSE st.passed]
     ELSE [st EXCEPT !.failed = f1]

\* lines 167-215: `for rule in self.__rules_map[attribute]`, head first
RECURSIVE ValidateRules(_, _, _, _)
ValidateRules(rules, attribute, value, st) ==
  IF rules = <<>> THEN [st |-> st, ret |-> "False"]
  ELSE
    LET rule == Head(rules)
        friendly_str == IF rule.labelled THEN StrEntry(rule.friendly_str)
                        ELSE DictEntry
        r == Call(rule, value)
        st1 == [st EXCEPT !.evals = Append(@, r)]
    IN IF r.ret = "True"
       THEN [st |-> MarkPassed(st1, attribute, friendly_str), ret |-> "True"]
       ELSE IF r.ret = "Raise"
       THEN ValidateRules(Tail(rules), attribute, value,
                          MarkRaised(st1, attribute, r.msg))
       ELSE ValidateRules(Tail(rules), attribute, value,
                          MarkFailed(st1, attribute, friendly_str))

\* Validator.validate(attribute, value) on tracking state st
validate(rmap, attribute, value, st) ==
  IF attribute \notin DOMAIN rmap
  THEN [st |-> st, ret |-> "MissingRuleError"]
  ELSE ValidateRules(rmap[attribute], attribute, value, st)

(***************************************************************************)
(* Validator.get_results_str: the numbers of its summary line              *)
(* "Matched: <matched> / <total> (Failures: <total - matched>)".           *)
(***************************************************************************)
\* sum of len(d[k]) over the keys of `keys`
RECURSIVE SumLens(_, _)
SumLens(d, keys) ==
  IF keys = {} THEN 0
  ELSE LET k == CHOOSE x \in keys : TRUE
       IN Len(d[k]) + SumLens(d, keys \ {k})

\* get_results_str counting the failed entries as matched
get_results_str_counts_failed(rmap, passed, failed) ==
  [matched |-> SumLens(failed, DOMAIN failed),
   total |-> SumLens(rmap, DOMAIN passed)
               + SumLens(rmap, DOMAIN failed \ DOMAIN passed)]

\* the loop over __passed_rules adds len(rules_map[key]) to total and
\* len(value) to matched; the loop over __failed_rules adds
\* len(rules_map[key]) to total for the keys that are not in __passed_rules
get_results_str(rmap, passed, failed) ==
  [matched |-> SumLens(passed, DOMAIN passed),
   total |-> SumLens(rmap, DOMAIN passed)
               + SumLens(rmap, DOMAIN failed \ DOMAIN passed)]

(***************************************************************************)
(* State.                                                                  *)
(***************************************************************************)
VARIABLES
  rules_map,        \* Validator.__rules_map: attribute -> list of predicates
  passed_rules,     \* Validator.__passed_rules
  failed_rules,     \* Validator.__failed_rules
  nexc,             \* SingleRuleFailure objects created so far
  nevents,          \* validate calls made / events sent so far
  last,             \* the last validate call: arguments, outcome, the
                    \* outcome of each rule call and the tracking before it
  state_completed,  \* the State's completion future
  msg_queue,        \* the asyncio.Queue between listener and Validator
  vpc,              \* where the start_validating coroutine stands
  \* multi_server_test.py: the tasks of the event loop
  test_task,        \* per compose file, the task running run_tests(tests)
  tg_tasks,         \* per compose file, the tasks of tg.create_task(test.run)
  shutdown_task,    \* the cleanup_and_shutdown tasks (done callbacks, signal)
  loop_state,       \* the event loop: "running" until loop.stop()
  error_log,        \* what run_tests logged with logger.error
  ready,            \* the handles the event loop has ready, first in first out
  ntodo,            \* the handles left to run in the iteration under way
  task_group,       \* per compose file, the asyncio.TaskGroup of run_tests
  gathers,          \* the gathers of the cleanup_and_shutdown tasks
  \* listener.py: one Listener, its destination and the hosts writing to it
  lkind,            \* ListenerType of the listener: "socket" or "file"
  lpc,              \* where the start() coroutine stands
  ready_future,     \* Listener.ready_future
  fs,               \* the listener directory: listener_dest and its backup
  listener_source,  \* FileListener.listener_source
  changes,          \* changes of listener_dest that awatch has yet to yield
  batch,            \* what is left of the set of changes awatch yielded last
  opened,           \* what the aiofiles.open under way got from open()
  readline,         \* what the readline under way got from the file
  conns,            \* the client connections of the SocketListener
  written,          \* per source, the lines hosts wrote once ready resolved
  enq_log,          \* every put_nowait of the listener: source and item
  stop_log,         \* the stop() calls that ended: the directory stop()
                    \* found and left, and what it returned or raised
  stop_pc,          \* where the stop() call under way stands
  delivered,        \* the (attribute, value) pairs start_validating passed
                    \* to validate, in order
  \* multi_server_test.py: main up to loop.run_forever()
  main_args,        \* what main was called with: the compose source, the
                    \* test configurations, the seed and the listener type
  bpc,              \* where main stands
  build_pos,        \* the compose file and the test file being processed
  tests,            \* the list `tests` of the running build_tests call
  created_tasks,    \* per compose file processed, the Tests of its task
  build_log,        \* the generate_states calls made, with their outcome
  main_errors,      \* what build_tests and main logged with logger.error
  \* the construction of the Validator from a state configuration
  vctor,            \* "pending", "constructed", or the exception raised
  \* state_tools.py: one action of a host of a state configuration
  act,              \* the action, its parameters dict and how far
                    \* parse_test_configs got with it
  \* rules.py: one call of the range rule
  rng,              \* the arguments of within_range and what it returned
  \* the State that owns the Validator, and the Test that runs the States
  state_run,        \* the State: its status, the events it has checked
                    \* the tracking after, how it resolved and its report
  test_run,         \* Test.run: the States in their order, the one that
                    \* runs, how each resolved and the result of the Test
  test_exit         \* the end of Test.run: the exit path taken, where the
                    \* stop() call on the listener stands and what it did

validatorVars ==
  << rules_map, passed_rules, failed_rules, nexc, nevents, last,
     state_completed, msg_queue, vpc >>

orchVars ==
  << test_task, tg_tasks, shutdown_task, loop_state, error_log, ready, ntodo,
     task_group, gathers >>

listenerVars ==
  << lkind, lpc, ready_future, fs, listener_source, changes, batch, opened, readline,
     conns, written, enq_log, stop_log, stop_pc >>

\* the variables the Validator and its loop never touch
buildVars ==
  << main_args, bpc, build_pos, tests, created_tasks, build_log,
     main_errors >>

\* the State and the Test
runVars == << state_run, test_run, test_exit >>

extraVars == << vctor, act, rng, runVars >>

otherVars == << orchVars, listenerVars, buildVars, extraVars >>

\* what the listener and the Validator leave alone
idleVars == << orchVars, buildVars, extraVars >>

vars == << validatorVars, delivered, otherVars >>

\* what run_tests and the shutdown leave alone, and what main leaves alone
\* while it builds the Tests
notOrchVars ==
  << validatorVars, delivered, listenerVars, buildVars, extraVars >>

notBuildVars ==
  << validatorVars, delivered, orchVars, listenerVars, extraVars >>

\* no event loop has been set up
OrchIdle ==
  /\ test_task = <<>>
  /\ tg_tasks = <<>>
  /\ shutdown_task = <<>>
  /\ loop_state = "none"
  /\ error_log = <<>>
  /\ ready = <<>>
  /\ ntodo = 0
  /\ task_group = <<>>
  /\ gathers = <<>>

\* FileListener.listener_source = None; otherwise st is "open", "closing"
\* (the close() of a stop() call is under way) or "closed", gen the file the
\* handle was opened on and pos the lines start() has got from it
NoSource == [gen |-> 0, pos |-> 0, st |-> "None"]

\* no aiofiles.open is under way, or open() has not run yet; otherwise st is
\* "open" (gen the file open() found) or the exception open() raised
NoOpen == [gen |-> 0, st |-> "none"]

\* no readline is under way, or the thread has not run it yet; otherwise
\* st is "line" (line is the line it read), "eof" (it returned '') or the
\* exception it raised
NoRead == [st |-> "none", line |-> <<>>]

\* no listener has been constructed
ListenerIdle ==
  /\ lkind = "none"
  /\ lpc = "idle"
  /\ ready_future = "pending"
  /\ fs = <<>>
  /\ listener_source = NoSource
  /\ changes = <<>>
  /\ batch = <<>>
  /\ opened = NoOpen
  /\ readline = NoRead
  /\ conns = <<>>
  /\ written = <<>>
  /\ enq_log = <<>>
  /\ stop_log = <<>>
  /\ stop_pc = "idle"

\* main has not been called
NoArgs ==
  [compose_kind |-> "none", compose |-> <<>>, configs_is_dir |-> FALSE,
   configs |-> <<>>, seed |-> <<>>, listener_type |-> "none"]

BuildIdle ==
  /\ main_args = NoArgs
  /\ bpc = "none"
  /\ build_pos = [compose |-> 0, test |-> 0]
  /\ tests = <<>>
  /\ created_tasks = <<>>
  /\ build_log = <<>>
  /\ main_errors = <<>>

\* the Validator of the state exists
NoAction ==
  [pc |-> "none", name |-> "", config |-> <<>>, params |-> <<>>,
   host |-> "", test_name |-> ""]

NoRange ==
  [pc |-> "none", minimum |-> 0, maximum |-> 0, string |-> <<>>,
   ret |-> FALSE]

\* no report has been produced
NoResults == [matched |-> -1, total |-> -1]

\* a State that has not started: checked counts the validate calls it has
\* looked at, nresolved the resolutions of its completion signal and refused
\* the resolutions the signal refused; path is the path that resolved it, at
\* the number of validate calls made when it did, timer whether the timeout
\* of the State is still to elapse
NoState ==
  [pc |-> "Pending", checked |-> 0, nresolved |-> 0, refused |-> 0,
   path |-> "none", at |-> 0, timer |-> "none", results |-> NoResults]

\* no Test: otherwise pc is "built", "running", "passed" or "failed",
\* states the list generate_states returned for config and seed, cur the
\* State in progress ("idle" between two States), started the names of the
\* States in the order they started and resolved how each of them resolved
NoRun ==
  [pc |-> "none", config |-> <<>>, seed |-> <<>>, generated |-> 0,
   states |-> <<>>, cur |-> "idle", started |-> <<>>, resolved |-> <<>>]

\* a Test that runs: pc becomes "closing" while stop() is suspended in
\* listener_source.close(), "cancelling" once cancel() was called on the
\* suspended task, and "exited" when Test.run has ended; path is the
\* exit path, cancels the cancel() calls made on the task, ret what stop()
\* returned or raised, attempted whether stop() got to its rename
NoExit ==
  [pc |-> "running", path |-> "none", cancels |-> 0, ret |-> "none",
   attempted |-> FALSE]

RunIdle == state_run = NoState /\ test_run = NoRun /\ test_exit = NoExit

ExtraIdle ==
  /\ vctor = "constructed"
  /\ act = NoAction
  /\ rng = NoRange
  /\ RunIdle

\* lists of at most n predicates
RuleLists(n) == UNION { [1..k -> Rules] : k \in 0..n }

RECURSIVE SumLen(_, _)
SumLen(rmap, keys) ==
  IF keys = {} THEN 0
  ELSE LET k == CHOOSE x \in keys : TRUE
       IN Len(rmap[k]) + SumLen(rmap, keys \ {k})

\* the rule maps a Validator is constructed over: any attributes, each with
\* a (possibly empty) list of predicates, MaxRules predicates in all
RuleMaps ==
  UNION { { rmap \in [D -> RuleLists(MaxRules)] : SumLen(rmap, D) <= MaxRules }
          : D \in SUBSET Attributes }

NoCall(p, f) ==
  [op |-> "init", attribute |-> "", value |-> <<>>, ret |-> "",
   evals |-> <<>>, passed0 |-> p, failed0 |-> f]

\* Validator.__init__(rules_map, state_completed)
ValidatorInit(rmap) ==
  /\ rules_map = rmap
  /\ passed_rules = InitPassedRules(rmap)
  /\ failed_rules = InitFailedRules(rmap)
  /\ nexc = 0
  /\ last = NoCall(InitPassedRules(rmap), InitFailedRules(rmap))

Init ==
  /\ \E rmap \in RuleMaps : ValidatorInit(rmap)
  /\ nevents = 0
  /\ state_completed = "pending"
  /\ msg_queue = <<>>
  /\ vpc = "idle"
  /\ delivered = <<>>
  /\ OrchIdle
  /\ ListenerIdle
  /\ BuildIdle
  /\ ExtraIdle

\* the effect of self.validate(attribute, value) on the Validator
DoValidate(attribute, value) ==
  LET st0 == [passed |-> passed_rules, failed |-> failed_rules,
              nexc |-> nexc, evals |-> <<>>]
      r == validate(rules_map, attribute, value, st0)
  IN /\ passed_rules' = r.st.passed
     /\ failed_rules' = r.st.failed
     /\ nexc' = r.st.nexc
     /\ last' = [op |-> "validate", attribute |-> attribute,
                 value |-> value, ret |-> r.ret, evals |-> r.st.evals,
                 passed0 |-> passed_rules, failed0 |-> failed_rules]
     /\ UNCHANGED rules_map

\* a caller invokes Validator.validate(attribute, value)
Validate(attribute, value) ==
  /\ nevents < MaxEvents
  /\ nevents' = nevents + 1
  /\ DoValidate(attribute, value)
  /\ UNCHANGED << state_completed, msg_queue, vpc, delivered >>
  /\ UNCHANGED otherVars

Next == \E attribute \in Attributes, value \in Values :
          Validate(attribute, value)

Spec == Init /\ [][Next]_vars

(***************************************************************************)
(* Validator.start_validating, the consumption loop, with the listener     *)
(* that feeds msg_queue and the State that resolves the completion future. *)
(*                                                                         *)
(* The event loop is single-threaded: a coroutine keeps the thread until   *)
(* it awaits something that is not ready.  vpc is                          *)
(*   "idle"     the coroutine has not run yet,                             *)
(*   "running"  it holds the thread, at the `while` test (line 224),       *)
(*   "waiting"  it is suspended in msg_queue.get() on an empty queue,      *)
(*   "woken"    an item arrived while it waited; it is scheduled to resume *)
(*              inside msg_queue.get(),                                    *)
(*   "returned" the loop has ended (line 249).                             *)
(* No other task runs while vpc = "running".                               *)
(***************************************************************************)
\* the listener enqueues a decoded line: msg_queue.put((attribute, value));
\* a getter suspended on the empty queue is woken
Send(attribute, value) ==
  /\ vpc # "running"
  /\ nevents < MaxEvents
  /\ nevents' = nevents + 1
  /\ msg_queue' = Append(msg_queue, <<attribute, value>>)
  /\ vpc' = IF vpc = "waiting" THEN "woken" ELSE vpc
  /\ UNCHANGED << rules_map, passed_rules, failed_rules, nexc, last,
                  state_completed, delivered >>
  /\ UNCHANGED otherVars

\* the State resolves its completion future: Completed once every failed
\* list is empty, TimedOut when its timeout elapses
Resolve(outcome) ==
  /\ vpc # "running"
  /\ state_completed = "pending"
  /\ outcome = "Completed" =>
       \A a \in DOMAIN failed_rules : failed_rules[a] = <<>>
  /\ state_completed' = outcome
  /\ UNCHANGED << rules_map, passed_rules, failed_rules, nexc, nevents, last,
                  msg_queue, vpc, delivered >>
  /\ UNCHANGED otherVars

\* the event loop starts the start_validating task
StartValidating ==
  /\ vpc = "idle"
  /\ vpc' = "running"
  /\ UNCHANGED << rules_map, passed_rules, failed_rules, nexc, nevents, last,
                  state_completed, msg_queue, delivered >>
  /\ UNCHANGED otherVars

\* lines 233-245: validate the message, MissingRuleError is only logged
ConsumeHead ==
  /\ DoValidate(Head(msg_queue)[1], Head(msg_queue)[2])
  /\ delivered' = Append(delivered, << last'.attribute, last'.value >>)
  /\ msg_queue' = Tail(msg_queue)

\* LoopIteration without the `except MissingRuleError`: the exception of
\* validate leaves start_validating
LoopIteration_raises_missing_rule ==
  /\ vpc = "running"
  /\ IF state_completed # "pending"
     THEN /\ vpc' = "returned"
          /\ UNCHANGED << rules_map, passed_rules, failed_rules, nexc, last,
                          msg_queue, delivered >>
     ELSE IF msg_queue # <<>>
     THEN /\ ConsumeHead
          /\ vpc' = IF Head(msg_queue)[1] \in DOMAIN rules_map
                    THEN "running" ELSE "returned"
     ELSE /\ vpc' = "waiting"
          /\ UNCHANGED << rules_map, passed_rules, failed_rules, nexc, last,
                          msg_queue, delivered >>
  /\ UNCHANGED << nevents, state_completed >>
  /\ UNCHANGED otherVars

\* one pass of `while not self.__state_completed.done()`: the loop ends, or
\* takes the next message without suspending, or suspends in get()
LoopIteration ==
  /\ vpc = "running"
  /\ IF state_completed # "pending"
     THEN /\ vpc' = "returned"
          /\ UNCHANGED << rules_map, passed_rules, failed_rules, nexc, last,
                          msg_queue, delivered >>
     ELSE IF msg_queue # <<>>
     THEN /\ ConsumeHead
          /\ vpc' = "running"
     ELSE /\ vpc' = "waiting"
          /\ UNCHANGED << rules_map, passed_rules, failed_rules, nexc, last,
                          msg_queue, delivered >>
  /\ UNCHANGED << nevents, state_completed >>
  /\ UNCHANGED otherVars

\* Resume with a Validator that resolves the completion future itself
\* once every failed list is empty, whether or not it is already resolved
Resume_resolves_future ==
  /\ vpc = "woken"
  /\ ConsumeHead
  /\ vpc' = "running"
  /\ state_completed' =
       IF \A a \in DOMAIN failed_rules' : failed_rules'[a] = <<>>
       THEN "Completed" ELSE state_completed
  /\ UNCHANGED nevents
  /\ UNCHANGED otherVars

\* the woken coroutine resumes in get(), takes the message and validates it
Resume ==
  /\ vpc = "woken"
  /\ ConsumeHead
  /\ vpc' = "running"
  /\ UNCHANGED << nevents, state_completed >>
  /\ UNCHANGED otherVars

ValidatorStep == StartValidating \/ LoopIteration \/ Resume

\* the values the host sends in the loop specification: "OK" and "X:9"
LoopValues == { <<"O", "K">>, <<"X", ":", "9">> }

LoopNext ==
  \/ \E attribute \in Attributes, value \in LoopValues :
       Send(attribute, value)
  \/ \E outcome \in {"Completed", "TimedOut"} : Resolve(outcome)
  \/ StartValidating
  \/ LoopIteration
  \/ Resume

\* the rule maps of the loop specification: one predicate at most
LoopRuleMaps == { rmap \in RuleMaps : SumLen(rmap, DOMAIN rmap) <= 1 }

LoopInit ==
  /\ \E rmap \in LoopRuleMaps : ValidatorInit(rmap)
  /\ nevents = 0
  /\ state_completed = "pending"
  /\ msg_queue = <<>>
  /\ vpc = "idle"
  /\ delivered = <<>>
  /\ OrchIdle
  /\ ListenerIdle
  /\ BuildIdle
  /\ ExtraIdle

LoopSpec == LoopInit /\ [][LoopNext]_vars

(***************************************************************************)
(* listener.py: SocketListener and FileListener.                           *)
(*                                                                         *)
(* fs is the listener directory as the listener sees it:                   *)
(*   dest, bak  what is at listener_dest and at listener_dest + ".bak":    *)
(*              "absent", "file", "dir" or "socket",                       *)
(*   lines, bak_lines  the lines of the file there,                        *)
(*   gen, bak_gen      which file it is (a new file gets a new number),    *)
(*   unlinked   the files that have no name in the directory any more,     *)
(*              each with its gen and its lines: a handle opened on one    *)
(*              still reads it,                                            *)
(*   writable   whether the process may create, remove and rename entries  *)
(*              of the directory.                                          *)
(* lpc is where start() stands: "idle" before it runs; for the socket       *)
(* listener "bound" while it is suspended in start_unix_server (line 165,  *)
(* the socket is bound) and "serving" in serve_forever (line 184); for the *)
(* file listener "watching" in awatch (line 243), "opening" in             *)
(* aiofiles.open (line 260), "reading" in a readline of `async for line`   *)
(* (lines 268, 297) and "closing" in listener_source.close() (line 285);   *)
(* "returned" once start() has returned, and the name of the exception     *)
(* once start() has raised one.  stop_pc is "closing" while a stop() call  *)
(* is suspended in listener_source.close() (line 332), "idle" otherwise.   *)
(***************************************************************************)
\* the orders in which a set can be iterated
RECURSIVE Orders(_)
Orders(S) ==
  IF S = {} THEN { <<>> }
  ELSE UNION { { << x >> \o p : p \in Orders(S \ {x}) } : x \in S }

\* lines hosts write in one behaviour
MaxLines == 2
\* client connections of a SocketListener
MaxConns == 2
\* stop() calls in one behaviour
MaxStops == 2

\* str.strip() of a line of letters and spaces
RECURSIVE lstrip(_)
lstrip(cs) ==
  IF cs # <<>> /\ Head(cs) = " " THEN lstrip(Tail(cs)) ELSE cs

RECURSIVE rstrip(_)
rstrip(cs) ==
  IF cs # <<>> /\ cs[Len(cs)] = " "
  THEN rstrip(SubSeq(cs, 1, Len(cs) - 1)) ELSE cs

strip(cs) == rstrip(lstrip(cs))

\* message.split(" ", 1) where every separator is taken, as str.rsplit
\* would from the right: the mutant of split_once
split_last(message) ==
  LET idx == { i \in 1..Len(message) : message[i] = " " }
  IN IF idx = {} THEN << message >>
     ELSE LET i == CHOOSE k \in idx : \A m \in idx : m <= k
          IN << SubSeq(message, 1, i - 1),
                SubSeq(message, i + 1, Len(message)) >>

\* message.split(" ", 1)
split_once(message) ==
  LET idx == { i \in 1..Len(message) : message[i] = " " }
  IN IF idx = {} THEN << message >>
     ELSE LET i == CHOOSE k \in idx : \A m \in idx : k <= m
          IN << SubSeq(message, 1, i - 1),
                SubSeq(message, i + 1, Len(message)) >>

\* the lines the hosts send: "status OK", "status X:9 z" (a value with a
\* space) and "ping" (no space: malformed)
LineOK == << "s", "t", "a", "t", "u", "s", " ", "O", "K" >>
LineSpaced ==
  << "s", "t", "a", "t", "u", "s", " ", "X", ":", "9", " ", "z" >>
LineBad == << "p", "i", "n", "g" >>
HostLines == { LineOK, LineSpaced, LineBad }

\* the queue items of a list of messages: __process_message on each
\* (lines 204-213), a message without a space being dropped
RECURSIVE process_messages(_)
process_messages(lines) ==
  IF lines = <<>> THEN <<>>
  ELSE LET parts == split_once(strip(Head(lines)))
       IN (IF Len(parts) < 2 THEN <<>>
           ELSE << << Text(parts[1]), parts[2] >> >>)
            \o process_messages(Tail(lines))

\* a file-system call: the directory after it and the exception it raised
FsOk(f) == [fs |-> f, exc |-> ""]
FsErr(f, e) == [fs |-> f, exc |-> e]

\* the directory once what is at listener_dest has been removed: a file
\* loses its name
Removed(f) ==
  [f EXCEPT !.dest = "absent", !.lines = <<>>,
            !.unlinked = IF f.dest = "file"
                         THEN @ \cup {[gen |-> f.gen, lines |-> f.lines]}
                         ELSE @]

\* listener_dest.unlink()
unlink(f) ==
  IF ~f.writable THEN FsErr(f, "PermissionError")
  ELSE IF f.dest = "dir" THEN FsErr(f, "IsADirectoryError")
  ELSE FsOk(Removed(f))

\* listener_dest.rmdir(), of an empty directory
rmdir(f) ==
  IF ~f.writable THEN FsErr(f, "PermissionError") ELSE FsOk(Removed(f))

\* listener_dest.rename(backup_path): a file at backup_path is replaced and
\* loses its name
rename(f) ==
  IF ~f.writable THEN FsErr(f, "PermissionError")
  ELSE IF f.dest = "dir" /\ f.bak \in {"file", "socket"}
  THEN FsErr(f, "NotADirectoryError")
  ELSE IF f.dest # "dir" /\ f.bak = "dir"
  THEN FsErr(f, "IsADirectoryError")
  ELSE FsOk([f EXCEPT !.bak = f.dest, !.bak_lines = f.lines,
                      !.bak_gen = f.gen, !.dest = "absent",
                      !.lines = <<>>,
                      !.unlinked =
                        IF f.bak = "file"
                        THEN @ \cup {[gen |-> f.bak_gen,
                                      lines |-> f.bak_lines]}
                        ELSE @])

\* asyncio.start_unix_server(path=listener_dest): create_unix_server removes
\* a stale socket it finds at the path, when it can, and binds.  bind fails
\* with EADDRINUSE, raised as OSError, when something is at the path, and
\* with EACCES, a PermissionError, in a directory the process may not write
start_unix_server(f) ==
  LET g == IF f.dest = "socket" /\ f.writable THEN Removed(f) ELSE f
  IN IF g.dest # "absent" THEN FsErr(f, "OSError")
     ELSE IF ~g.writable THEN FsErr(f, "PermissionError")
     ELSE FsOk([g EXCEPT !.dest = "socket"])

\* listener_dest.chmod(0o777)
chmod(f) ==
  IF f.dest = "absent" THEN FsErr(f, "FileNotFoundError") ELSE FsOk(f)

\* lines 151-162 and 222-231: a path found at listener_dest is removed
RemoveExisting(f) ==
  IF f.dest = "absent" THEN FsOk(f)
  ELSE IF f.dest = "dir" THEN rmdir(f)
  ELSE unlink(f)

\* Listener.stop, lines 84-106, on directory f: the directory afterwards
\* and the value returned
Listener_stop(f) ==
  IF f.dest # "absent"
  THEN LET r == unlink(f)
       IN IF r.exc = "" THEN [fs |-> r.fs, ret |-> "True"]
          ELSE [fs |-> f, ret |-> "False"]
  ELSE [fs |-> f, ret |-> "True"]

\* FileListener.stop that removes the file instead of keeping a backup:
\* the mutant of FileListener_stop
FileListener_stop_unlinks(f) == Listener_stop(f)

\* FileListener.stop, lines 335-344: ret is the value returned, or the
\* exception that rename raised
FileListener_stop(f) ==
  IF f.dest # "absent"
  THEN LET r == rename(f)
       IN IF r.exc # "" THEN [fs |-> f, ret |-> r.exc]
          ELSE Listener_stop(r.fs)
  ELSE Listener_stop(f)

\* what the listener leaves alone in the Validator
trackingVars ==
  << rules_map, passed_rules, failed_rules, nexc, last, state_completed,
     delivered >>

RECURSIVE Tagged(_, _)
Tagged(src, items) ==
  IF items = <<>> THEN <<>>
  ELSE << [src |-> src, item |-> Head(items)] >> \o Tagged(src, Tail(items))

\* msg_queue.put_nowait(item) for each item, read from source src
\* (connection 1.. or, for the file, 0): a getter suspended on the empty
\* queue is woken
Enqueue(src, items) ==
  /\ msg_queue' = msg_queue \o items
  /\ vpc' = IF vpc = "waiting" /\ items # <<>> THEN "woken" ELSE vpc
  /\ enq_log' = enq_log \o Tagged(src, items)

\* SocketListener.start, lines 149-168, until it suspends in
\* start_unix_server, which yields to the loop once the socket is bound and
\* listening, returns or raises
SocketListener_start ==
  /\ vpc # "running"
  /\ lkind = "socket"
  /\ lpc = "idle"
  /\ LET r1 == RemoveExisting(fs)
         r2 == start_unix_server(r1.fs)
     IN IF r1.exc # ""
        THEN lpc' = r1.exc /\ UNCHANGED fs
        ELSE IF r2.exc = "PermissionError"
        THEN lpc' = "returned" /\ fs' = r1.fs
        ELSE IF r2.exc # ""
        THEN lpc' = r2.exc /\ fs' = r1.fs
        ELSE lpc' = "bound" /\ fs' = r2.fs
  /\ UNCHANGED << lkind, ready_future, listener_source, changes, batch, opened, readline, conns,
                  written, enq_log, stop_log, stop_pc >>
  /\ UNCHANGED << trackingVars, nevents, msg_queue, vpc, idleVars >>

\* SocketListener.start resumed with the server, lines 165-184: chmod of
\* the socket, the ready signal, and serve_forever.  chmod raises
\* FileNotFoundError when the socket was removed in between, which the
\* `except PermissionError` of line 172 does not catch
ServeForever ==
  /\ vpc # "running"
  /\ lkind = "socket"
  /\ lpc = "bound"
  /\ LET r == chmod(fs)
     IN IF r.exc # ""
        THEN lpc' = r.exc /\ UNCHANGED ready_future
        ELSE lpc' = "serving" /\ ready_future' = "done"
  /\ UNCHANGED << lkind, fs, listener_source, changes, batch, opened, readline, conns, written,
                  enq_log, stop_log, stop_pc >>
  /\ UNCHANGED << trackingVars, nevents, msg_queue, vpc, idleVars >>

\* FileListener.start, lines 219-246, until it suspends in awatch or raises
FileListener_start ==
  /\ vpc # "running"
  /\ lkind = "file"
  /\ lpc = "idle"
  /\ LET r1 == RemoveExisting(fs)
     IN IF r1.exc # ""
        THEN lpc' = r1.exc /\ UNCHANGED << fs, ready_future >>
        ELSE lpc' = "watching" /\ fs' = r1.fs /\ ready_future' = "done"
  /\ UNCHANGED << lkind, listener_source, changes, batch, opened, readline, conns, written, enq_log,
                  stop_log, stop_pc >>
  /\ UNCHANGED << trackingVars, nevents, msg_queue, vpc, idleVars >>

\* a host connects to the socket, which listens from the moment it is
\* bound: the server starts __handle_connection for the connection
Connect(c) ==
  /\ lkind = "socket"
  /\ lpc \in {"bound", "serving"}
  /\ fs.dest = "socket"
  /\ conns[c].st = "none"
  /\ conns' = [conns EXCEPT ![c].st = "open"]
  /\ UNCHANGED << lkind, lpc, ready_future, fs, listener_source, changes, batch, opened, readline,
                  written, enq_log, stop_log, stop_pc >>
  /\ UNCHANGED << trackingVars, nevents, msg_queue, vpc, idleVars >>

\* a host writes a line and its newline on connection c
HostSend(c, line) ==
  /\ conns[c].st = "open"
  /\ ~conns[c].eof
  /\ nevents < MaxLines
  /\ nevents' = nevents + 1
  /\ conns' = [conns EXCEPT ![c].buf = Append(@, line)]
  /\ written' = [written EXCEPT ![c] = Append(@, line)]
  /\ UNCHANGED << lkind, lpc, ready_future, fs, listener_source, changes, batch, opened, readline,
                  enq_log, stop_log, stop_pc >>
  /\ UNCHANGED << trackingVars, msg_queue, vpc, idleVars >>

\* a host closes its end of connection c
HostClose(c) ==
  /\ conns[c].st = "open"
  /\ ~conns[c].eof
  /\ conns' = [conns EXCEPT ![c].eof = TRUE]
  /\ UNCHANGED << lkind, lpc, ready_future, fs, listener_source, changes, batch, opened, readline,
                  written, enq_log, stop_log, stop_pc >>
  /\ UNCHANGED << trackingVars, nevents, msg_queue, vpc, idleVars >>

\* SocketListener.__handle_connection, lines 130-143, one turn of the loop:
\* a line is read, stripped, split and enqueued; the unpacking of a line
\* without a space raises ValueError, which ends the handler; at the end
\* of the stream readuntil raises IncompleteReadError and the handler ends
HandleConnection(c) ==
  /\ vpc # "running"
  /\ conns[c].st = "open"
  /\ IF conns[c].buf # <<>>
     THEN LET parts == split_once(strip(Head(conns[c].buf)))
          IN IF Len(parts) < 2
             THEN /\ conns' = [conns EXCEPT ![c].st = "ValueError",
                                            ![c].buf = <<>>,
                                            ![c].nread = @ + 1]
                  /\ UNCHANGED << msg_queue, vpc, enq_log >>
             ELSE /\ conns' = [conns EXCEPT ![c].buf = Tail(@),
                                            ![c].nread = @ + 1]
                  /\ Enqueue(c, << << Text(parts[1]), parts[2] >> >>)
     ELSE /\ conns[c].eof
          /\ conns' = [conns EXCEPT ![c].st = "closed"]
          /\ UNCHANGED << msg_queue, vpc, enq_log >>
  /\ UNCHANGED << lkind, lpc, ready_future, fs, listener_source, changes, batch, opened, readline,
                  written, stop_log, stop_pc >>
  /\ UNCHANGED << trackingVars, nevents, idleVars >>

\* where start() stands inside the loop over awatch, lines 243-302: the
\* watcher collects the changes of the directory while the loop body
\* handles one
WatchLoop == {"watching", "opening", "reading", "closing"}

\* a host appends a line to the destination file, creating it if need be
HostAppend(line) ==
  /\ lkind = "file"
  /\ fs.dest \in {"absent", "file"}
  /\ nevents < MaxLines
  /\ nevents' = nevents + 1
  /\ fs' = IF fs.dest = "absent"
           THEN [fs EXCEPT !.dest = "file", !.lines = << line >>,
                           !.gen = 1 + (IF fs.gen > fs.bak_gen
                                        THEN fs.gen ELSE fs.bak_gen)]
           ELSE [fs EXCEPT !.lines = Append(@, line)]
  /\ changes' = IF lpc \in WatchLoop
                THEN Append(changes, IF fs.dest = "absent"
                                     THEN "added" ELSE "modified")
                ELSE changes
  /\ UNCHANGED << batch, opened, readline >>
  /\ written' = IF ready_future = "done"
                THEN [written EXCEPT ![0] = Append(@, line)] ELSE written
  /\ UNCHANGED << lkind, lpc, ready_future, listener_source, conns, enq_log,
                  stop_log, stop_pc >>
  /\ UNCHANGED << trackingVars, msg_queue, vpc, idleVars >>

\* the lines an open listener_source has yet to read: it reads the file it
\* was opened on, wherever that file is now, with a name or without
Unread(src) ==
  LET file == IF fs.dest = "file" /\ fs.gen = src.gen THEN fs.lines
              ELSE IF fs.bak = "file" /\ fs.bak_gen = src.gen
              THEN fs.bak_lines
              ELSE (CHOOSE u \in fs.unlinked : u.gen = src.gen).lines
  IN SubSeq(file, src.pos + 1, Len(file))

\* `for change in changes`, lines 247-305, from the next change of the set
\* up to the first await: aiofiles.open for a file added,
\* listener_source.close() for a file deleted and the first readline for a
\* file modified, the last two when the listener has a source and nothing
\* otherwise; at the end of the set start() is back in awatch
RECURSIVE NextChange(_, _)
NextChange(rest, src) ==
  IF rest = <<>> THEN [lpc |-> "watching", batch |-> <<>>]
  ELSE CASE Head(rest) = "added" ->
              [lpc |-> "opening", batch |-> Tail(rest)]
         [] Head(rest) = "deleted" ->
              IF src.st = "None" THEN NextChange(Tail(rest), src)
              ELSE [lpc |-> "closing", batch |-> Tail(rest)]
         [] Head(rest) = "modified" ->
              IF src.st = "None" THEN NextChange(Tail(rest), src)
              ELSE [lpc |-> "reading", batch |-> Tail(rest)]

\* FileListener.start, lines 243-302: awatch yields the changes of
\* listener_dest it has collected, the first n of them, as a set, which the
\* loop iterates in the order of its hashes; the loop body runs up to its
\* first await
WatchStep ==
  /\ vpc # "running"
  /\ lpc = "watching"
  /\ \E n \in 1..Len(changes) :
       \E order \in Orders({ changes[i] : i \in 1..n }) :
         LET next == NextChange(order, listener_source)
         IN /\ lpc' = next.lpc
            /\ batch' = next.batch
            /\ changes' = SubSeq(changes, n + 1, Len(changes))
  /\ UNCHANGED << lkind, ready_future, fs, listener_source, opened, readline, conns,
                  written, enq_log, stop_log, stop_pc >>
  /\ UNCHANGED << trackingVars, nevents, msg_queue, vpc, idleVars >>

\* aiofiles.open of line 260 has its open() run by a thread of the
\* executor, on what is at listener_dest at that moment
OpenRuns ==
  /\ lpc = "opening"
  /\ opened = NoOpen
  /\ opened' = CASE fs.dest = "absent" ->
                     [gen |-> 0, st |-> "FileNotFoundError"]
                [] fs.dest = "dir" -> [gen |-> 0, st |-> "IsADirectoryError"]
                [] fs.dest = "socket" -> [gen |-> 0, st |-> "OSError"]
                [] fs.dest = "file" -> [gen |-> fs.gen, st |-> "open"]
  /\ UNCHANGED << lkind, lpc, ready_future, fs, listener_source, changes,
                  batch, readline, conns, written, enq_log, stop_log,
                  stop_pc >>
  /\ UNCHANGED << trackingVars, nevents, msg_queue, vpc, idleVars >>

\* aiofiles.open of line 260 returns what open() got: start() goes on to
\* the first readline of line 268 with the handle, wherever the file is by
\* now, or leaves with FileNotFoundError (caught, lines 310-315) or another
\* OSError
Open ==
  /\ vpc # "running"
  /\ lpc = "opening"
  /\ opened # NoOpen
  /\ opened' = NoOpen
  /\ IF opened.st = "open"
     THEN /\ lpc' = "reading"
          /\ listener_source' = [gen |-> opened.gen, pos |-> 0, st |-> "open"]
          /\ UNCHANGED batch
     ELSE /\ lpc' = IF opened.st = "FileNotFoundError" THEN "returned"
                    ELSE opened.st
          /\ batch' = <<>>
          /\ UNCHANGED listener_source
  /\ UNCHANGED << lkind, ready_future, fs, changes, readline, conns, written,
                  enq_log, stop_log, stop_pc >>
  /\ UNCHANGED << trackingVars, nevents, msg_queue, vpc, idleVars >>

\* the readline of `async for line in self.listener_source`, lines 268 and
\* 297, is run by a thread of the executor, on the file as it is at that
\* moment: it reads the next line, or '' at the end of the file, and raises
\* ValueError on a closed file.  While a stop() call is closing the file,
\* the readline comes before the close or after it
ReadRuns ==
  /\ lpc = "reading"
  /\ readline = NoRead
  /\ \E closed \in IF listener_source.st = "closing" THEN BOOLEAN
                   ELSE { listener_source.st = "closed" } :
       readline' =
         IF closed THEN [st |-> "ValueError", line |-> <<>>]
         ELSE IF Unread(listener_source) = <<>>
         THEN [st |-> "eof", line |-> <<>>]
         ELSE [st |-> "line", line |-> Head(Unread(listener_source))]
  /\ UNCHANGED << lkind, lpc, ready_future, fs, listener_source, changes,
                  batch, opened, conns, written, enq_log, stop_log, stop_pc >>
  /\ UNCHANGED << trackingVars, nevents, msg_queue, vpc, idleVars >>

\* one turn of `async for line in self.listener_source`, lines 268-273 and
\* 297-302: the readline returns what the thread got, whatever has become
\* of the file and of the handle since.  A line is stripped and handed to
\* __process_message, and the next readline is submitted; at the end of the
\* file the loop goes on with the next change of the set; ValueError leaves
\* start()
ReadLine ==
  /\ vpc # "running"
  /\ lpc = "reading"
  /\ readline # NoRead
  /\ readline' = NoRead
  /\ CASE readline.st = "ValueError" ->
            /\ lpc' = "ValueError"
            /\ batch' = <<>>
            /\ UNCHANGED << listener_source, msg_queue, vpc, enq_log >>
       [] readline.st = "eof" ->
            LET next == NextChange(batch, listener_source)
            IN /\ lpc' = next.lpc
               /\ batch' = next.batch
               /\ UNCHANGED << listener_source, msg_queue, vpc, enq_log >>
       [] readline.st = "line" ->
            /\ listener_source' = [listener_source EXCEPT !.pos = @ + 1]
            /\ Enqueue(0, process_messages(<< readline.line >>))
            /\ UNCHANGED << lpc, batch >>
  /\ UNCHANGED << lkind, ready_future, fs, changes, opened, conns, written,
                  stop_log, stop_pc >>
  /\ UNCHANGED << trackingVars, nevents, idleVars >>

\* listener_source.close() of line 285 has returned: line 286, and the
\* loop goes on with the next change of the set
CloseSource ==
  /\ vpc # "running"
  /\ lpc = "closing"
  /\ listener_source' = NoSource
  /\ LET next == NextChange(batch, NoSource)
     IN lpc' = next.lpc /\ batch' = next.batch
  /\ UNCHANGED << lkind, ready_future, fs, changes, opened, readline, conns, written,
                  enq_log, stop_log, stop_pc >>
  /\ UNCHANGED << trackingVars, nevents, msg_queue, vpc, idleVars >>

\* what stop() does from line 334 on, resp. Listener.stop as a whole
StopResult ==
  IF lkind = "file" THEN FileListener_stop(fs) ELSE Listener_stop(fs)

\* stop() from line 334 on, resp. Listener.stop as a whole, lines 84-106;
\* the rename of a watched file is seen by awatch as its deletion
StopEnds ==
  /\ fs' = StopResult.fs
  /\ stop_log' = Append(stop_log, [before |-> fs, after |-> StopResult.fs,
                                   ret |-> StopResult.ret])
  /\ changes' = IF lpc \in WatchLoop /\ StopResult.fs.dest # fs.dest
                THEN Append(changes, "deleted") ELSE changes
  /\ UNCHANGED << batch, opened, readline >>

\* the file handle once the close() of a stop() call has been submitted
Closing(src) == IF src.st = "open" THEN [src EXCEPT !.st = "closing"] ELSE src

\* the file handle once that close() has returned; a handle start() has
\* opened in between is another file object
Closed(src) == IF src.st = "closing" THEN [src EXCEPT !.st = "closed"] ELSE src

\* stop() is called: Listener.stop, and FileListener.stop of a listener
\* without a source, run to their end; FileListener.stop of a listener with
\* a source suspends in listener_source.close(), line 332
Stop ==
  /\ vpc # "running"
  /\ stop_pc = "idle"
  /\ Len(stop_log) < MaxStops
  /\ IF lkind = "file" /\ listener_source.st # "None"
     THEN /\ listener_source' = Closing(listener_source)
          /\ stop_pc' = "closing"
          /\ UNCHANGED << fs, stop_log, changes, batch, opened, readline >>
     ELSE /\ StopEnds
          /\ UNCHANGED << listener_source, stop_pc >>
  /\ UNCHANGED << lkind, lpc, ready_future, conns, written, enq_log >>
  /\ UNCHANGED << trackingVars, nevents, msg_queue, vpc, idleVars >>

\* close() has returned: FileListener.stop resumes at line 334
StopReturns ==
  /\ vpc # "running"
  /\ stop_pc = "closing"
  /\ stop_pc' = "idle"
  /\ listener_source' = Closed(listener_source)
  /\ StopEnds
  /\ UNCHANGED << lkind, lpc, ready_future, conns, written, enq_log >>
  /\ UNCHANGED << trackingVars, nevents, msg_queue, vpc, idleVars >>

\* the State of the listener specification verifies `status`: pattern OK
ListenerRules == "status" :> << build_rule(CfgPatOK) >>

ListenerInit ==
  /\ \E kind \in {"socket", "file"}, d \in {"absent", "file", "dir"},
        b \in {"absent", "file"}, w \in BOOLEAN :
       /\ lkind = kind
       /\ fs = [dest |-> d,
                lines |-> IF d = "file" THEN << LineBad >> ELSE <<>>,
                gen |-> IF d = "file" THEN 2 ELSE 0,
                bak |-> b,
                bak_lines |-> IF b = "file" THEN << LineOK >> ELSE <<>>,
                bak_gen |-> IF b = "file" THEN 1 ELSE 0,
                unlinked |-> {},
                writable |-> w]
       /\ conns = IF kind = "socket"
                  THEN Dict([c \in 1..MaxConns |->
                               [st |-> "none", buf |-> <<>>, eof |-> FALSE,
                                nread |-> 0]])
                  ELSE <<>>
  /\ lpc = "idle"
  /\ ready_future = "pending"
  /\ listener_source = NoSource
  /\ changes = <<>>
  /\ batch = <<>>
  /\ opened = NoOpen
  /\ readline = NoRead
  /\ written = Dict([src \in 0..MaxConns |-> <<>>])
  /\ enq_log = <<>>
  /\ stop_log = <<>>
  /\ stop_pc = "idle"
  /\ ValidatorInit(ListenerRules)
  /\ nevents = 0
  /\ state_completed = "pending"
  /\ msg_queue = <<>>
  /\ vpc = "idle"
  /\ delivered = <<>>
  /\ OrchIdle
  /\ BuildIdle
  /\ ExtraIdle

\* a step of the listener's own coroutines
ListenerStep ==
  \/ SocketListener_start
  \/ ServeForever
  \/ FileListener_start
  \/ \E c \in DOMAIN conns : HandleConnection(c)
  \/ WatchStep
  \/ OpenRuns
  \/ Open
  \/ ReadRuns
  \/ ReadLine

ListenerNext ==
  \/ SocketListener_start
  \/ ServeForever
  \/ FileListener_start
  \/ \E c \in DOMAIN conns : Connect(c)
  \/ \E c \in DOMAIN conns : \E line \in HostLines : HostSend(c, line)
  \/ \E c \in DOMAIN conns : HostClose(c)
  \/ \E c \in DOMAIN conns : HandleConnection(c)
  \/ \E line \in HostLines : HostAppend(line)
  \/ WatchStep
  \/ OpenRuns
  \/ Open
  \/ ReadRuns
  \/ ReadLine
  \/ \E outcome \in {"Completed", "TimedOut"} : Resolve(outcome)
  \/ StartValidating
  \/ LoopIteration
  \/ Resume

\* the listener feeding the Validator of its State, until stop() is called
ListenerSpec == ListenerInit /\ [][ListenerNext]_vars

StopNext ==
  \/ SocketListener_start
  \/ ServeForever
  \/ FileListener_start
  \/ \E c \in DOMAIN conns : Connect(c)
  \/ \E c \in DOMAIN conns : \E line \in HostLines : HostSend(c, line)
  \/ \E c \in DOMAIN conns : HostClose(c)
  \/ \E c \in DOMAIN conns : HandleConnection(c)
  \/ \E line \in HostLines : HostAppend(line)
  \/ WatchStep
  \/ OpenRuns
  \/ Open
  \/ ReadRuns
  \/ ReadLine
  \/ CloseSource
  \/ Stop
  \/ StopReturns

\* the listener and the stop() calls made on it, at any time
StopSpec == ListenerInit /\ [][StopNext]_vars

(***************************************************************************)
(* multi_server_test.py: main, run_tests and cleanup_and_shutdown.         *)
(*                                                                         *)
(* main builds the Tests of every compose file, creates one run_tests task *)
(* per compose file, each with a done callback that creates a              *)
(* cleanup_and_shutdown task, and then runs the event loop.  run_tests     *)
(* starts one task per Test inside an asyncio.TaskGroup.  The event loop   *)
(* is modelled callback by callback: `ready` is its FIFO queue of handles, *)
(* a task that finishes only schedules its done callbacks, and the loop    *)
(* runs, iteration by iteration, the handles that were ready when the      *)
(* iteration began.  A task is                                             *)
(*   "built"       a Test whose task has not been created yet,             *)
(*   "created"     a run_tests task that has not run its first step,       *)
(*   "none"        a cleanup_and_shutdown task nothing has created yet,    *)
(*   "pending"     a cleanup_and_shutdown task before its first step,      *)
(*   "running"     a Test started and not finished,                        *)
(*   "joining"     run_tests suspended at the end of `async with`,         *)
(*   "gathering"   cleanup_and_shutdown suspended in gather,               *)
(*   "cancelling"  cancel() was called on it and CancelledError has not    *)
(*                 been delivered yet,                                     *)
(*   "done", "ValueError", "Exception", "failed", "cancelled"  finished:   *)
(*                 returned, raised ValueError, raised another exception   *)
(*                 (run_tests: an ExceptionGroup), was cancelled.          *)
(***************************************************************************)
\* compose files in compose_source
MaxGroups == 2
\* Tests built per compose file
MaxTests == 2
\* run_tests tasks and Test tasks of one run
MaxTasks == 4
\* termination signals (SIGINT, SIGTERM) delivered in one run
MaxSignals == 2

Finished == {"done", "ValueError", "Exception", "cancelled"}

\* a task that exists and has not finished: Task.done() is false
Live == {"created", "joining", "running", "pending", "gathering", "cancelling"}

NoValidator ==
  /\ ValidatorInit(<<>>)
  /\ nevents = 0
  /\ state_completed = "pending"
  /\ msg_queue = <<>>
  /\ vpc = "idle"
  /\ delivered = <<>>

\* the tasks of the loop: loop.create_task(run_tests(tests)) of compose file
\* g, tg.create_task(test.run()) of its Test t, and the
\* cleanup_and_shutdown task k: for k >= 1 the one the done callback of
\* compose file k creates, for k <= 0 the ones of the signal handler (0 for
\* the first signal handled, -1 for the next)
RunTestsTask(g) == << "run_tests", g, 0 >>
TestTask(g, t) == << "test", g, t >>
CleanupTask(k) == << "cleanup", k, 0 >>

\* a handle of the ready queue: "step" is a step of the task (Task.__step or
\* its wakeup), "done_callback" the lambda main added to a run_tests task,
\* "_on_task_done" the callback the TaskGroup added to a Test task,
\* "_done_callback" the one gather added to the task for the gather of
\* cleanup_and_shutdown task arg, "signal" the handler of SIGINT/SIGTERM
\* (the same handle for every signal)
Handle(kind, task, arg) == [kind |-> kind, task |-> task, arg |-> arg]

Step(task) == Handle("step", task, 0)

\* asyncio.TaskGroup() when it is created: _tasks (the Tests of the group by
\* number), _errors in the order the tasks ended, _aborting,
\* _parent_cancel_requested, and whether __aexit__ has caught a
\* CancelledError to propagate
TaskGroup ==
  [tasks |-> {}, errors |-> <<>>, aborting |-> FALSE,
   parent_cancel_requested |-> FALSE, propagate |-> FALSE]

\* main, lines 233-270: every compose file gets the Tests built from the
\* same configs and a run_tests task; shutdown_task[g] is the task the done
\* callback of test_task[g] creates, shutdown_task[0], [-1], ... the ones
\* the signal handler creates.  create_task schedules the first step of
\* each run_tests task; with no compose file the loop starts with no task
main(ngroups, ntests) ==
  /\ test_task = Dict([g \in 1..ngroups |-> "created"])
  /\ tg_tasks = Dict([g \in 1..ngroups |-> Dict([t \in 1..ntests |-> "built"])])
  /\ shutdown_task = Dict([k \in (1 - MaxSignals)..ngroups |-> "none"])
  /\ loop_state = "running"
  /\ error_log = <<>>
  /\ ready = Dict([g \in 1..ngroups |-> Step(RunTestsTask(g))])
  /\ ntodo = 0
  /\ task_group = Dict([g \in 1..ngroups |-> TaskGroup])
  /\ gathers = <<>>

\* the event loop and its tasks, as one value the callbacks transform
Loop ==
  [test_task |-> test_task, tg_tasks |-> tg_tasks,
   shutdown_task |-> shutdown_task, loop_state |-> loop_state,
   error_log |-> error_log, ready |-> ready, task_group |-> task_group,
   gathers |-> gathers]

StatusOf(lp, task) ==
  CASE task[1] = "run_tests" -> lp.test_task[task[2]]
    [] task[1] = "test" -> lp.tg_tasks[task[2]][task[3]]
    [] task[1] = "cleanup" -> lp.shutdown_task[task[2]]

SetStatus(lp, task, status) ==
  CASE task[1] = "run_tests" -> [lp EXCEPT !.test_task[task[2]] = status]
    [] task[1] = "test" -> [lp EXCEPT !.tg_tasks[task[2]][task[3]] = status]
    [] task[1] = "cleanup" -> [lp EXCEPT !.shutdown_task[task[2]] = status]

\* asyncio.all_tasks(): the tasks of the loop that are not done, a set
all_tasks(lp) ==
  { RunTestsTask(g) : g \in { h \in DOMAIN lp.test_task :
                                lp.test_task[h] \in Live } }
  \cup UNION { { TestTask(g, t) : t \in { u \in DOMAIN lp.tg_tasks[g] :
                                            lp.tg_tasks[g][u] \in Live } } :
               g \in DOMAIN lp.tg_tasks }
  \cup { CleanupTask(k) : k \in { j \in DOMAIN lp.shutdown_task :
                                    lp.shutdown_task[j] \in Live } }

\* a step of the task is in the ready queue
Scheduled(lp, task) == \E i \in DOMAIN lp.ready : lp.ready[i] = Step(task)

\* loop.call_soon(handle)
call_soon(lp, handle) == [lp EXCEPT !.ready = Append(@, handle)]

RECURSIVE cancel(_, _)
RECURSIVE CancelTasks(_, _)

\* Task.cancel(): nothing on a task that is done.  The task gets
\* CancelledError at its next step; one that is suspended on a future is
\* woken up for it (the future is cancelled).  A cleanup_and_shutdown task
\* suspended in gather waits on the gather's future, whose cancel() calls
\* cancel() on the children of the gather, in the order they were passed;
\* the task is woken up when the gather completes
cancel(lp, task) ==
  IF StatusOf(lp, task) \notin Live THEN lp
  ELSE LET cancelling == SetStatus(lp, task, "cancelling")
       IN IF Scheduled(lp, task) THEN cancelling
          ELSE IF task[1] = "cleanup"
          THEN LET i == CHOOSE j \in DOMAIN lp.gathers :
                          lp.gathers[j].k = task[2]
               IN CancelTasks(cancelling, lp.gathers[i].order)
          ELSE call_soon(cancelling, Step(task))

\* for task in tasks: task.cancel()
CancelTasks(lp, tasks) ==
  IF tasks = <<>> THEN lp
  ELSE CancelTasks(cancel(lp, Head(tasks)), Tail(tasks))

RECURSIVE SomeOrder(_)
SomeOrder(S) ==
  IF S = {} THEN <<>>
  ELSE LET x == CHOOSE y \in S : TRUE IN << x >> \o SomeOrder(S \ {x})

\* the orders in which the set S of tasks can be cancelled, up to what the
\* order decides: the order in which the suspended tasks are woken up, now
\* or, for a run_tests task that goes on waiting in __aexit__, when a
\* gather that holds the order is cancelled later
CancelOrders(lp, S) ==
  LET ordered == { task \in S : \/ ~Scheduled(lp, task)
                                \/ task[1] = "run_tests" }
  IN { p \o SomeOrder(S \ ordered) : p \in Orders(ordered) }

\* the _done_callback handles of the gathers that wait for the task, in the
\* order the gathers were made
RECURSIVE GatherCallbacks(_, _)
GatherCallbacks(gs, task) ==
  IF gs = <<>> THEN <<>>
  ELSE (IF task \in Head(gs).children
        THEN << Handle("_done_callback", task, Head(gs).k) >> ELSE <<>>)
         \o GatherCallbacks(Tail(gs), task)

\* the task ends with the status: its done callbacks are scheduled in the
\* order they were added (Future.__schedule_callbacks)
Finish(lp, task, status) ==
  LET first == CASE task[1] = "run_tests" ->
                      << Handle("done_callback", task, 0) >>
                 [] task[1] = "test" -> << Handle("_on_task_done", task, 0) >>
                 [] task[1] = "cleanup" -> <<>>
  IN [SetStatus(lp, task, status) EXCEPT
        !.ready = @ \o first \o GatherCallbacks(lp.gathers, task)]

\* TaskGroup._abort(): cancel every task of the group that is not done
abort(lp, g, order) ==
  CancelTasks([lp EXCEPT !.task_group[g].aborting = TRUE], order)

\* the orders in which _abort can cancel the tasks of the group
AbortOrders(lp, g, tasks) ==
  CancelOrders(lp, { TestTask(g, t) : t \in { u \in tasks :
                                               lp.tg_tasks[g][u] \in Live } })

AllFinished(g) ==
  \A t \in DOMAIN tg_tasks[g] : tg_tasks[g][t] \in Finished

\* the entries of the TaskGroup's _errors that are exc (or, with FALSE, that
\* are not), as (compose file, Test), in the order of _errors
RECURSIVE RaisedWith(_, _, _, _)
RaisedWith(errors, g, exc, is) ==
  IF errors = <<>> THEN <<>>
  ELSE (IF (Head(errors).exc = exc) = is
        THEN << << g, Head(errors).t >> >> ELSE <<>>)
         \o RaisedWith(Tail(errors), g, exc, is)

\* run_tests, lines 185-196, up to the end of the `async with` block: one
\* task per Test, and run_tests suspends in TaskGroup.__aexit__; with no
\* Test it runs to its end at once (line 201)
run_tests(lp, g) ==
  LET ntests == Len(lp.tg_tasks[g])
      RECURSIVE create_task(_, _)
      create_task(l, t) ==
        IF t > ntests THEN l
        ELSE create_task(
               call_soon(SetStatus(l, TestTask(g, t), "running"),
                         Step(TestTask(g, t))), t + 1)
      entered == [lp EXCEPT !.task_group[g].tasks = 1..ntests]
  IN IF ntests = 0 THEN Finish(entered, RunTestsTask(g), "done")
     ELSE SetStatus(create_task(entered, 1), RunTestsTask(g), "joining")

\* run_tests, lines 197-201, once __aexit__ raises the errors of the group:
\* `except* ValueError` logs the ValueErrors; any other exception leaves
\* run_tests in an ExceptionGroup
run_tests_except(lp, g) ==
  LET errors == lp.task_group[g].errors
  IN Finish([lp EXCEPT !.error_log = @ \o RaisedWith(errors, g, "ValueError", TRUE)],
            RunTestsTask(g),
            IF RaisedWith(errors, g, "ValueError", FALSE) # <<>>
            THEN "failed" ELSE "done")

\* TaskGroup.__aexit__ resumed from `await self._on_completed_fut`: a
\* CancelledError aborts the group, unless it is aborting already, and is
\* kept to be propagated; the wait goes on while the group has tasks; then
\* the CancelledError is raised if no task raised, and the errors otherwise
aexit(lp, g, order) ==
  LET caught == /\ lp.test_task[g] = "cancelling"
                /\ ~lp.task_group[g].aborting
      aborted == IF caught
                 THEN abort([lp EXCEPT !.task_group[g].propagate = TRUE],
                            g, order)
                 ELSE lp
      tg == aborted.task_group[g]
  IN IF tg.tasks # {} THEN SetStatus(aborted, RunTestsTask(g), "joining")
     ELSE IF tg.propagate /\ tg.errors = <<>>
     THEN Finish(aborted, RunTestsTask(g), "cancelled")
     ELSE run_tests_except(aborted, g)

\* TaskGroup._on_task_done(task): the task leaves _tasks, and the last one
\* to leave wakes the waiting __aexit__ up; the exception of a task that
\* raised is kept, and the first one aborts the group and cancels run_tests
on_task_done(lp, g, t, order) ==
  LET parent == RunTestsTask(g)
      discarded == [lp EXCEPT !.task_group[g].tasks = @ \ {t}]
      woken == IF /\ discarded.task_group[g].tasks = {}
                  /\ lp.test_task[g] \in Live
                  /\ ~Scheduled(lp, parent)
               THEN call_soon(discarded, Step(parent)) ELSE discarded
      exc == lp.tg_tasks[g][t]
      kept == [woken EXCEPT
                 !.task_group[g].errors = Append(@, [t |-> t, exc |-> exc])]
      tg == lp.task_group[g]
  IN IF exc \in {"cancelled", "done"} THEN woken
     ELSE IF lp.test_task[g] \notin Live THEN kept
     ELSE IF ~tg.aborting /\ ~tg.parent_cancel_requested
     THEN cancel([abort(kept, g, order) EXCEPT
                    !.task_group[g].parent_cancel_requested = TRUE], parent)
     ELSE kept

\* asyncio.create_task(cleanup_and_shutdown()), by the done callback of
\* test_task[k] or by the signal handler (k <= 0)
create_cleanup_task(lp, k) ==
  call_soon(SetStatus(lp, CleanupTask(k), "pending"), Step(CleanupTask(k)))

\* loop.stop(): the loop ends once the handles of this iteration have run
stop(lp) == [lp EXCEPT !.loop_state = "stopping"]

\* cleanup_and_shutdown that does not wait for the gather of the tasks it
\* cancelled: the loop is stopped right after the tasks were cancelled
cleanup_and_shutdown_without_gather(lp, k, tasks) ==
  LET cancelled == CancelTasks(lp, tasks)
      gathered ==
        IF tasks = <<>> THEN cancelled
        ELSE [cancelled EXCEPT
                !.gathers = Append(@, [k |-> k,
                                       children |-> { tasks[i] : i \in DOMAIN tasks },
                                       order |-> tasks,
                                       nfinished |-> 0])]
  IN Finish(stop(gathered), CleanupTask(k), "done")

\* cleanup_and_shutdown, lines 51-63: cancel every task of the loop but the
\* current one, in the order all_tasks() gave them, then wait for them in
\* gather.  gather of no task is done at once, and the coroutine goes on to
\* loop.stop() without suspending
cleanup_and_shutdown(lp, k, tasks) ==
  LET cancelled == CancelTasks(lp, tasks)
  IN IF tasks = <<>> THEN Finish(stop(cancelled), CleanupTask(k), "done")
     ELSE SetStatus(
            [cancelled EXCEPT
               !.gathers = Append(@, [k |-> k,
                                      children |-> { tasks[i] : i \in DOMAIN tasks },
                                      order |-> tasks,
                                      nfinished |-> 0])],
            CleanupTask(k), "gathering")

\* gather's _done_callback(fut) for the gather of cleanup task k: the last
\* child to end completes the gather, which wakes the cleanup task up
gather_done_callback(lp, k) ==
  LET i == CHOOSE j \in DOMAIN lp.gathers : lp.gathers[j].k = k
      counted == [lp EXCEPT !.gathers[i].nfinished = @ + 1]
  IN IF counted.gathers[i].nfinished = Cardinality(counted.gathers[i].children)
     THEN call_soon(counted, Step(CleanupTask(k))) ELSE counted

\* BaseEventLoop._run_once: the handles that are ready when an iteration
\* begins are the ones it runs (ntodo = len(self._ready)); ntodo is what is
\* left of the iteration under way
Batch == IF ntodo = 0 THEN Len(ready) ELSE ntodo

\* the handle is the next one the loop runs
Runs(handle) ==
  /\ loop_state \in {"running", "stopping"}
  /\ ready # <<>>
  /\ Head(ready) = handle

\* the loop with the handle that runs taken off the queue
Popped == [Loop EXCEPT !.ready = Tail(ready)]

\* the handle has run and left the loop as lp; run_forever returns after
\* the iteration in which loop.stop() was called
Ran(lp) ==
  LET after == IF Batch = 1 /\ lp.loop_state = "stopping"
               THEN [lp EXCEPT !.loop_state = "stopped"] ELSE lp
  IN /\ ntodo' = Batch - 1
     /\ test_task' = after.test_task
     /\ tg_tasks' = after.tg_tasks
     /\ shutdown_task' = after.shutdown_task
     /\ loop_state' = after.loop_state
     /\ error_log' = after.error_log
     /\ ready' = after.ready
     /\ task_group' = after.task_group
     /\ gathers' = after.gathers
     /\ UNCHANGED notOrchVars

\* the first step of a run_tests task; the loop runs it in its first
\* iteration, before any handle that could cancel the task
RunTests(g) ==
  /\ Runs(Step(RunTestsTask(g)))
  /\ test_task[g] = "created"
  /\ Ran(run_tests(Popped, g))

\* run_tests is woken up in TaskGroup.__aexit__
RunTestsExit(g) ==
  /\ Runs(Step(RunTestsTask(g)))
  /\ test_task[g] \in {"joining", "cancelling"}
  /\ \E order \in AbortOrders(Popped, g, task_group[g].tasks) :
       Ran(aexit(Popped, g, order))

\* something Test.run awaits completes: the Test task is woken up
TestWakes(g, t) ==
  /\ loop_state = "running"
  /\ tg_tasks[g][t] = "running"
  /\ ~Scheduled(Loop, TestTask(g, t))
  /\ ready' = Append(ready, Step(TestTask(g, t)))
  /\ UNCHANGED << test_task, tg_tasks, shutdown_task, loop_state, error_log,
                  ntodo, task_group, gathers >>
  /\ UNCHANGED notOrchVars

\* a step of Test.run that ends at another await
TestSuspends(g, t) ==
  /\ Runs(Step(TestTask(g, t)))
  /\ tg_tasks[g][t] = "running"
  /\ Ran(Popped)

\* Test.run returns
TestReturns(g, t) ==
  /\ Runs(Step(TestTask(g, t)))
  /\ tg_tasks[g][t] = "running"
  /\ Ran(Finish(Popped, TestTask(g, t), "done"))

\* Test.run raises exc
TestRaises(g, t, exc) ==
  /\ Runs(Step(TestTask(g, t)))
  /\ tg_tasks[g][t] = "running"
  /\ Ran(Finish(Popped, TestTask(g, t), exc))

\* CancelledError is delivered to a cancelled Test.run, which ends
TestCancelled(g, t) ==
  /\ Runs(Step(TestTask(g, t)))
  /\ tg_tasks[g][t] = "cancelling"
  /\ Ran(Finish(Popped, TestTask(g, t), "cancelled"))

\* the TaskGroup's done callback of a Test task
OnTaskDone(g, t) ==
  /\ Runs(Handle("_on_task_done", TestTask(g, t), 0))
  /\ \E order \in AbortOrders(Popped, g, task_group[g].tasks \ {t}) :
       Ran(on_task_done(Popped, g, t, order))

\* test_task.add_done_callback(
\*     lambda _: asyncio.create_task(cleanup_and_shutdown()))
DoneCallback(g) ==
  /\ Runs(Handle("done_callback", RunTestsTask(g), 0))
  /\ Ran(create_cleanup_task(Popped, g))

\* the cleanup_and_shutdown tasks the signal handler has created
SignalTasks(lp) ==
  { k \in DOMAIN lp.shutdown_task : k <= 0 /\ lp.shutdown_task[k] # "none" }

\* the signal handles that are waiting in the ready queue
SignalsReady == { i \in DOMAIN ready : ready[i].kind = "signal" }

\* SIGINT or SIGTERM arrives.  The signal wakes the loop up through its
\* self-pipe, and the reader of the pipe (_read_from_self), which an
\* iteration runs after the handles that were ready before it polled,
\* appends the handler of lines 228-231 to the ready queue: the handle is
\* appended at the end of an iteration, behind what that iteration
\* scheduled, whatever tasks exist and whatever signals came before.  A
\* handle appended in the iteration that called loop.stop() is never run
Signal ==
  /\ loop_state \in {"running", "stopped"}
  /\ ntodo = 0
  /\ Cardinality(SignalTasks(Loop)) + Cardinality(SignalsReady) < MaxSignals
  /\ ready' = Append(ready, Handle("signal", CleanupTask(0), 0))
  /\ UNCHANGED << test_task, tg_tasks, shutdown_task, loop_state, error_log,
                  ntodo, task_group, gathers >>
  /\ UNCHANGED notOrchVars

\* lambda: asyncio.create_task(cleanup_and_shutdown()), the signal handler:
\* every call creates one more task
SignalHandler ==
  /\ Runs(Handle("signal", CleanupTask(0), 0))
  /\ Ran(create_cleanup_task(Popped, -Cardinality(SignalTasks(Popped))))

\* the first step of a cleanup_and_shutdown task
CleanupAndShutdown(k) ==
  /\ Runs(Step(CleanupTask(k)))
  /\ shutdown_task[k] = "pending"
  /\ \E tasks \in CancelOrders(Popped, all_tasks(Popped) \ {CleanupTask(k)}) :
       Ran(cleanup_and_shutdown(Popped, k, tasks))

\* CancelledError is delivered to a cancelled cleanup_and_shutdown task,
\* before its first line or in gather
ShutdownCancelled(k) ==
  /\ Runs(Step(CleanupTask(k)))
  /\ shutdown_task[k] = "cancelling"
  /\ Ran(Finish(Popped, CleanupTask(k), "cancelled"))

\* gather's done callback of a task cleanup_and_shutdown waits for
GatherDone(task, k) ==
  /\ Runs(Handle("_done_callback", task, k))
  /\ Ran(gather_done_callback(Popped, k))

\* cleanup_and_shutdown, lines 63-77: gather returns once the cancelled
\* tasks have ended, and the loop is stopped
CleanupDone(k) ==
  /\ Runs(Step(CleanupTask(k)))
  /\ shutdown_task[k] = "gathering"
  /\ Ran(Finish(stop(Popped), CleanupTask(k), "done"))

\* the tasks some gather waits or waited for
Gathered == UNION { gathers[i].children : i \in DOMAIN gathers }

\* the steps the event loop takes by itself: it runs the handle at the head
\* of the ready queue
OrchProgress ==
  \/ \E g \in DOMAIN test_task : RunTests(g)
  \/ \E g \in DOMAIN test_task : RunTestsExit(g)
  \/ \E g \in DOMAIN test_task : \E t \in DOMAIN tg_tasks[g] :
       TestSuspends(g, t)
  \/ \E g \in DOMAIN test_task : \E t \in DOMAIN tg_tasks[g] :
       TestReturns(g, t)
  \/ \E g \in DOMAIN test_task : \E t \in DOMAIN tg_tasks[g] :
       \E exc \in {"ValueError", "Exception"} : TestRaises(g, t, exc)
  \/ \E g \in DOMAIN test_task : \E t \in DOMAIN tg_tasks[g] :
       TestCancelled(g, t)
  \/ \E g \in DOMAIN test_task : \E t \in DOMAIN tg_tasks[g] :
       OnTaskDone(g, t)
  \/ \E g \in DOMAIN test_task : DoneCallback(g)
  \/ SignalHandler
  \/ \E k \in DOMAIN shutdown_task : CleanupAndShutdown(k)
  \/ \E k \in DOMAIN shutdown_task : ShutdownCancelled(k)
  \/ \E k \in DOMAIN shutdown_task : CleanupDone(k)
  \/ \E k \in DOMAIN shutdown_task : \E task \in Gathered :
       GatherDone(task, k)

OrchNext ==
  \/ \E g \in DOMAIN test_task : RunTests(g)
  \/ \E g \in DOMAIN test_task : RunTestsExit(g)
  \/ \E g \in DOMAIN test_task : \E t \in DOMAIN tg_tasks[g] :
       TestSuspends(g, t)
  \/ \E g \in DOMAIN test_task : \E t \in DOMAIN tg_tasks[g] :
       TestReturns(g, t)
  \/ \E g \in DOMAIN test_task : \E t \in DOMAIN tg_tasks[g] :
       \E exc \in {"ValueError", "Exception"} : TestRaises(g, t, exc)
  \/ \E g \in DOMAIN test_task : \E t \in DOMAIN tg_tasks[g] :
       TestCancelled(g, t)
  \/ \E g \in DOMAIN test_task : \E t \in DOMAIN tg_tasks[g] :
       OnTaskDone(g, t)
  \/ \E g \in DOMAIN test_task : DoneCallback(g)
  \/ SignalHandler
  \/ \E k \in DOMAIN shutdown_task : CleanupAndShutdown(k)
  \/ \E k \in DOMAIN shutdown_task : ShutdownCancelled(k)
  \/ \E k \in DOMAIN shutdown_task : CleanupDone(k)
  \/ \E k \in DOMAIN shutdown_task : \E task \in Gathered :
       GatherDone(task, k)
  \/ \E g \in DOMAIN test_task : \E t \in DOMAIN tg_tasks[g] :
       TestWakes(g, t)
  \/ Signal

\* the compose files and the Tests per compose file of a run
Shapes ==
  { s \in (0..MaxGroups) \X (0..MaxTests) : s[1] * (1 + s[2]) <= MaxTasks }

\* main, lines 233-280, over a compose directory that may hold no *.yml
\* file at all: the loop over glob("*.yml") creates no task then
OrchInit ==
  /\ \E s \in Shapes : main(s[1], s[2])
  /\ NoValidator
  /\ ListenerIdle
  /\ BuildIdle
  /\ ExtraIdle

OrchSpec == OrchInit /\ [][OrchNext]_vars

\* loop.run_forever() runs every handle that is ready; whether a signal
\* arrives and whether a Test is woken up is left to the environment
OrchLiveSpec ==
  OrchInit /\ [][OrchNext]_vars /\ WF_vars(OrchProgress)

(***************************************************************************)
(* multi_server_test.py and states/state_tools.py: building the Tests.     *)
(*                                                                         *)
(* main walks the compose files; for each, build_tests walks the test      *)
(* configuration files and calls generate_states on each of them; the      *)
(* Tests built for one compose file become one run_tests task.  Nothing    *)
(* runs before loop.run_forever(): main is synchronous up to there.        *)
(*                                                                         *)
(* File names are character sequences (the stem of the path).  A test      *)
(* configuration is the parsed YAML mapping, reduced to what               *)
(* parse_test_configs reads: state_order and, per state, its name, whether *)
(* it has a `verify` key, the action of its host ("none", "unknown" for a  *)
(* name get_events() does not know, "target" / "no_target" for a known     *)
(* action that takes a target, with or without one in its parameters) and  *)
(* the condition of its trigger ("known" or "unknown" to build_rule).      *)
(***************************************************************************)
\* files per directory (compose directory, test configuration directory)
MaxFiles == 2

\* the stems of the files of the model
Stems == { << "a" >>, << "b" >>, << "a", "-", "a" >> }

StateCfg(name, verify, action, condition) ==
  [name |-> name, verify |-> verify, action |-> action,
   condition |-> condition]

\* the state whose `verify` section declares `timeout: seconds`
Timed(state, seconds) == state @@ [timeout |-> seconds]

CfgShuffle ==
  [state_order |-> "random",
   states |-> << StateCfg("s1", TRUE, "target", "known"),
                 Timed(StateCfg("s2", TRUE, "none", "known"), 3),
                 StateCfg("s3", TRUE, "unknown", "known") >>]

CfgMissingTarget ==
  [state_order |-> "sequence",
   states |-> << StateCfg("s1", TRUE, "target", "known"),
                 StateCfg("s2", TRUE, "no_target", "known") >>]

CfgNoVerify ==
  [state_order |-> "sequence",
   states |-> << StateCfg("s1", FALSE, "target", "known") >>]

CfgUnknownRule ==
  [state_order |-> "sequence",
   states |-> << StateCfg("s1", TRUE, "target", "unknown"),
                 StateCfg("s2", TRUE, "target", "known") >>]

TestConfigs == { CfgShuffle, CfgMissingTarget, CfgNoVerify, CfgUnknownRule }

\* the seeds of the model: the values of --seed, and the values
\* random.randint(0, 2**32 - 1) returns
Seeds == { 0, 1, 5 }
Generated == { 1, 5 }

\* seed=None is <<>>, seed=n is << n >>
NoSeed == <<>>

\* `not seed`: None and 0 are falsy
not_seed(seed) == seed = NoSeed \/ seed[1] = 0

\* after random.seed(seed), the values j of the successive
\* randbelow(i + 1) calls of random.shuffle over n items, i = n-1 .. 1
\* (CPython 3.11, Mersenne Twister)
randbelow(seed, n) ==
  CASE n <= 1 -> <<>>
    [] n = 2 /\ seed = 1 -> << 0 >>
    [] n = 2 /\ seed = 5 -> << 1 >>
    [] n = 3 /\ seed = 1 -> << 0, 0 >>
    [] n = 3 /\ seed = 5 -> << 2, 1 >>

\* x[i], x[j] = x[j], x[i] with 0-based i and j
Swap(x, i, j) ==
  [k \in DOMAIN x |-> IF k = i + 1 THEN x[j + 1]
                      ELSE IF k = j + 1 THEN x[i + 1] ELSE x[k]]

\* random.shuffle(x): for i in reversed(range(1, len(x))):
\*                      j = randbelow(i + 1); x[i], x[j] = x[j], x[i]
RECURSIVE ShuffleFrom(_, _, _)
ShuffleFrom(x, i, draws) ==
  IF i < 1 THEN x
  ELSE ShuffleFrom(Swap(x, i, Head(draws)), i - 1, Tail(draws))

shuffle(x, seed) == ShuffleFrom(x, Len(x) - 1, randbelow(seed, Len(x)))

\* parse_test_configs over the states from position i on: the first state
\* that raises ends the call
RECURSIVE ParseStates(_, _)
ParseStates(states, i) ==
  IF i > Len(states) THEN [exc |-> "none", configs |-> <<>>]
  ELSE LET state == states[i]
       IN IF ~state.verify
            THEN \* state.get("verify", []).get(...): a list has no get
                 [exc |-> "AttributeError", configs |-> <<>>]
          ELSE IF state.action = "no_target"
            THEN [exc |-> "ValueError", configs |-> <<>>]
          ELSE LET rest == ParseStates(states, i + 1)
               IN IF rest.exc # "none" THEN rest
                  ELSE [exc |-> "none",
                        configs |-> << [name |-> state.name,
                                        timeout |->
                                          IF "timeout" \in DOMAIN state
                                            THEN state.timeout ELSE 15,
                                        actions |->
                                          IF state.action = "target"
                                            THEN 1 ELSE 0,
                                        rule_labelled |->
                                          state.condition = "known"] >>
                                    \o rest.configs]

parse_test_configs(config) ==
  LET r == ParseStates(config.states, 1)
  IN [exc |-> r.exc, state_order |-> config.state_order,
      configs |-> r.configs]

\* the timeout each State is constructed with, by the name of the state:
\* generate_states, line 78
RECURSIVE StateTimeouts(_)
StateTimeouts(configs) ==
  IF configs = <<>> THEN <<>>
  ELSE (Head(configs).name :> Head(configs).timeout)
         @@ StateTimeouts(Tail(configs))

RECURSIVE StateNames(_)
StateNames(configs) ==
  IF configs = <<>> THEN <<>>
  ELSE << Head(configs).name >> \o StateNames(Tail(configs))

\* generate_states shuffling the States whatever state_order says
generate_states_always_shuffles(config, seed, generated) ==
  LET p == parse_test_configs(config)
      states == StateNames(p.configs)
      seed1 == IF not_seed(seed) THEN << generated >> ELSE seed
  IN IF p.exc = "ValueError"
       THEN [exc |-> "ValueError", states |-> <<>>, logged |-> NoSeed,
             used |-> NoSeed,
           timeouts |-> StateTimeouts(p.configs)]
     ELSE IF p.exc # "none"
       THEN [exc |-> p.exc, states |-> <<>>, logged |-> NoSeed,
             used |-> NoSeed,
           timeouts |-> StateTimeouts(p.configs)]
     ELSE [exc |-> "none", states |-> shuffle(states, seed1[1]),
           logged |-> seed1, used |-> seed1,
           timeouts |-> StateTimeouts(p.configs)]

\* generate_states(loop, config, test_name, test_logger, seed); `generated`
\* is what random.randint returns if it is called.  The States are
\* represented by their names; `logged` is the seed of the "Shuffling
\* states with seed" lines, `used` the argument of random.seed.
generate_states(config, seed, generated) ==
  LET p == parse_test_configs(config)
      states == StateNames(p.configs)
      seed1 == IF not_seed(seed) THEN << generated >> ELSE seed
  IN IF p.exc = "ValueError"
       THEN \* raise ValueError(f"Invalid configuration file: {e}") from e
            [exc |-> "ValueError", states |-> <<>>, logged |-> NoSeed,
             used |-> NoSeed,
           timeouts |-> StateTimeouts(p.configs)]
     ELSE IF p.exc # "none"
       THEN [exc |-> p.exc, states |-> <<>>, logged |-> NoSeed,
             used |-> NoSeed,
           timeouts |-> StateTimeouts(p.configs)]
     ELSE IF p.state_order \in { "random", "unordered", "shuffle" }
       THEN [exc |-> "none", states |-> shuffle(states, seed1[1]),
             logged |-> seed1, used |-> seed1,
           timeouts |-> StateTimeouts(p.configs)]
     ELSE [exc |-> "none", states |-> states, logged |-> NoSeed,
           used |-> NoSeed,
           timeouts |-> StateTimeouts(p.configs)]

\* the suffix of the listener path for a ListenerType
Suffix(listener_type) ==
  IF listener_type = "socket" THEN << ".", "s", "o", "c", "k" >>
  ELSE << ".", "t", "x", "t" >>

CustomTest == << "c", "u", "s", "t", "o", "m", "_", "t", "e", "s", "t" >>

\* test_name = test_file.stem + "-" + compose_file.stem
\* (resp. "custom_test" + "-" + compose_file.stem)
TestName(test_stem, compose_stem) == test_stem \o << "-" >> \o compose_stem

\* Path(listener_dir, test_name + ".sock"), relative to listener_dir
ListenerPath(test_name, listener_type) ==
  Text(test_name \o Suffix(listener_type))

\* the compose file and the test file at the current position
CurCompose == main_args.compose[build_pos.compose]
CurFile == main_args.configs[build_pos.test]

\* one iteration of the loop of build_tests (resp. its else branch when the
\* configuration is a single file or a dict): name the test, call
\* generate_states and append the Test, or handle what was raised
BuildTest ==
  /\ bpc = "building"
  /\ build_pos.compose <= Len(main_args.compose)
  /\ build_pos.test <= Len(main_args.configs)
  /\ \E generated \in Generated :
       LET test_name ==
             TestName(IF main_args.configs_is_dir THEN CurFile.stem
                      ELSE CustomTest, CurCompose)
           r == generate_states(CurFile.config, main_args.seed, generated)
           call == [test_file |-> build_pos.test,
                    compose_file |-> build_pos.compose,
                    seed |-> main_args.seed, exc |-> r.exc,
                    states |-> r.states, timeouts |-> r.timeouts,
                    logged |-> r.logged,
                    used |-> r.used]
           test == [name |-> Text(test_name), states |-> r.states,
                    compose_file |-> build_pos.compose,
                    test_file |-> build_pos.test,
                    listener_dest |->
                      ListenerPath(test_name, main_args.listener_type)]
       IN /\ build_log' = Append(build_log, call)
          /\ IF r.exc = "none"
               THEN /\ tests' = Append(tests, test)
                    /\ build_pos' =
                         [build_pos EXCEPT !.test = build_pos.test + 1]
                    /\ UNCHANGED << bpc, main_errors >>
             ELSE IF r.exc = "ValueError" /\ main_args.configs_is_dir
               THEN \* except ValueError: logged, the test is skipped
                    /\ main_errors' =
                         Append(main_errors,
                                [where |-> "build_tests",
                                 test_file |-> build_pos.test])
                    /\ build_pos' =
                         [build_pos EXCEPT !.test = build_pos.test + 1]
                    /\ UNCHANGED << bpc, tests >>
             ELSE \* the exception leaves build_tests; main's
                  \* `except Exception` logs it and closes the loop
                  /\ main_errors' =
                       Append(main_errors,
                              [where |-> "main",
                               test_file |-> build_pos.test])
                  /\ bpc' = "closed"
                  /\ UNCHANGED << build_pos, tests >>
  /\ UNCHANGED << main_args, created_tasks >>
  /\ UNCHANGED notBuildVars

\* build_tests returned: test_task = loop.create_task(run_tests(tests)),
\* and main moves to the next compose file
CreateTestTask ==
  /\ bpc = "building"
  /\ build_pos.compose <= Len(main_args.compose)
  /\ build_pos.test > Len(main_args.configs)
  /\ created_tasks' = Append(created_tasks, tests)
  /\ tests' = <<>>
  /\ build_pos' = [compose |-> build_pos.compose + 1, test |-> 1]
  /\ UNCHANGED << main_args, bpc, build_log, main_errors >>
  /\ UNCHANGED notBuildVars

\* every compose file has its task: loop.run_forever() starts them
RunForever ==
  /\ bpc = "building"
  /\ main_args.compose_kind \in { "dir", "file" }
  /\ build_pos.compose > Len(main_args.compose)
  /\ bpc' = "run_forever"
  /\ UNCHANGED << main_args, build_pos, tests, created_tasks, build_log,
                  main_errors >>
  /\ UNCHANGED notBuildVars

\* the compose source is neither a directory nor a file: main logs
\* "Invalid compose source" and returns, and its finally closes the loop
InvalidComposeSource ==
  /\ bpc = "building"
  /\ main_args.compose_kind = "other"
  /\ bpc' = "closed"
  /\ main_errors' =
       Append(main_errors, [where |-> "compose_source", test_file |-> 0])
  /\ UNCHANGED << main_args, build_pos, tests, created_tasks, build_log >>
  /\ UNCHANGED notBuildVars

BuildNext ==
  BuildTest \/ CreateTestTask \/ RunForever \/ InvalidComposeSource

\* directory listings of at most n files: distinct stems, in the order glob
\* yields them
RECURSIVE Listings(_)
Listings(n) ==
  IF n = 0 THEN { <<>> }
  ELSE LET shorter == Listings(n - 1)
       IN shorter \cup
          { Append(l, s) : l \in { m \in shorter : Len(m) = n - 1 },
                           s \in Stems }

Distinct(l) == \A i, j \in DOMAIN l : i # j => l[i] # l[j]

\* what glob("*.yml") may yield for a directory, none included
GlobListings == { l \in Listings(MaxFiles) : Distinct(l) }

\* main(compose_source, configs, listener_type, seed=...): the compose
\* source is a directory of *.yml files, a file, or neither; the
\* configurations are a directory of *.yml files, or one file (or dict)
BuildInit ==
  /\ \E compose_kind \in { "dir", "file", "other" },
        compose \in GlobListings, stems \in GlobListings,
        is_dir \in BOOLEAN, listener_type \in { "socket", "file" },
        seed \in { NoSeed } \cup { << n >> : n \in Seeds } :
       \E cfgs \in [DOMAIN stems -> TestConfigs] :
         /\ compose_kind = "file" => Len(compose) = 1
         /\ compose_kind = "other" => compose = <<>>
         /\ is_dir \/ Len(stems) = 1
         /\ main_args =
              [compose_kind |-> compose_kind, compose |-> compose,
               configs_is_dir |-> is_dir,
               configs |-> [i \in DOMAIN stems |->
                              [stem |-> IF is_dir THEN stems[i] ELSE <<>>,
                               config |-> cfgs[i]]],
               seed |-> seed, listener_type |-> listener_type]
  /\ bpc = "building"
  /\ build_pos = [compose |-> 1, test |-> 1]
  /\ tests = <<>>
  /\ created_tasks = <<>>
  /\ build_log = <<>>
  /\ main_errors = <<>>
  /\ NoValidator
  /\ OrchIdle
  /\ ListenerIdle
  /\ ExtraIdle

BuildSpec == BuildInit /\ [][BuildNext]_vars

(***************************************************************************)
(* From a state configuration to its Validator: generate_rules_map builds  *)
(* the rule map of the `verify.triggers` of the state, Validator.__init__  *)
(* seeds the tracking from it.  A state configuration is a mapping from    *)
(* trigger name to the conditions of the trigger, in order.                *)
(***************************************************************************)
\* bogus: {}
CfgUnknown == LeafCfg(FALSE, "bogus", NoParams)
\* any: {pattern: {reg_pattern: OK}, bogus: {}}
CfgAnyUnknown == CtlCfg(FALSE, "any", << CfgPatOK, CfgUnknown >>)

CtorConfigs == { CfgPatOK, CfgNever, CfgMayPat, CfgUnknown, CfgAnyUnknown }

\* the loop over the conditions of one trigger: an exception of build_rule
\* ends it (`except Exception: ... continue`), what was appended stays
RECURSIVE AddConditions(_, _)
AddConditions(list, conds) ==
  IF conds = <<>> THEN list
  ELSE LET rule == build_rule(Head(conds))
       IN IF rule.func = "AttributeError" THEN list
          ELSE AddConditions(Append(list, rule), Tail(conds))

\* generate_rules_map(state, logger): the key of a trigger is created
\* before its first build_rule call
generate_rules_map(triggers) ==
  Dict([a \in { t \in DOMAIN triggers : triggers[t] # <<>> } |->
          AddConditions(<<>>, triggers[a])])

\* Validator.__init__(rules_map, state_completed): rule.friendly_str raises
\* AttributeError for a predicate without the attribute
Validator_init(rmap) ==
  IF \E a \in DOMAIN rmap : \E i \in 1..Len(rmap[a]) : ~rmap[a][i].labelled
  THEN [exc |-> "AttributeError", passed |-> <<>>, failed |-> <<>>]
  ELSE [exc |-> "none", passed |-> InitPassedRules(rmap),
        failed |-> InitFailedRules(rmap)]

\* the State constructs its Validator over the rule map of its configuration
Construct ==
  /\ vctor = "pending"
  /\ LET r == Validator_init(rules_map)
     IN /\ vctor' = IF r.exc = "none" THEN "constructed" ELSE r.exc
        /\ passed_rules' = r.passed
        /\ failed_rules' = r.failed
        /\ last' = NoCall(r.passed, r.failed)
  /\ UNCHANGED << rules_map, nexc, nevents, state_completed, msg_queue, vpc,
                  delivered, orchVars, listenerVars, buildVars, act, rng,
                  runVars >>

\* validate is called on the Validator once it exists
CtorValidate(attribute, value) ==
  /\ vctor = "constructed"
  /\ Validate(attribute, value)

CtorNext ==
  \/ Construct
  \/ \E attribute \in Attributes, value \in Values :
       CtorValidate(attribute, value)

CondLists == UNION { [1..k -> CtorConfigs] : k \in 0..MaxRules }

\* the state configurations: MaxRules conditions in all
TriggerMaps ==
  { t \in [Attributes -> CondLists] :
      SumLen(t, Attributes) \in 1..MaxRules }

CtorInit ==
  /\ \E triggers \in TriggerMaps : rules_map = generate_rules_map(triggers)
  /\ passed_rules = <<>>
  /\ failed_rules = <<>>
  /\ nexc = 0
  /\ last = NoCall(<<>>, <<>>)
  /\ vctor = "pending"
  /\ act = NoAction
  /\ rng = NoRange
  /\ RunIdle
  /\ nevents = 0
  /\ state_completed = "pending"
  /\ msg_queue = <<>>
  /\ vpc = "idle"
  /\ delivered = <<>>
  /\ OrchIdle
  /\ ListenerIdle
  /\ BuildIdle

CtorSpec == CtorInit /\ [][CtorNext]_vars

(***************************************************************************)
(* state_tools.py: build_action, the computed parameters of an action.     *)
(*                                                                         *)
(* An event function is known by the parameters its signature declares     *)
(* and by func.__code__.co_varnames, which build_action inspects: the      *)
(* names of the arguments followed by the names of the local variables of  *)
(* the code object (for a functools.singledispatch function, those of the  *)
(* dispatching wrapper).  A parameters dict is a function from parameter   *)
(* name to value.                                                          *)
(***************************************************************************)
\* EVENTS_MAP of the events modules, by event name: get_events() of the four
\* modules, where several names register the same function (`def_of`)
EVENTS_MAP ==
  LET def_of(name) ==
        CASE name \in { "access_request", "radius_request" } ->
               "access_request"
          [] name \in { "run_command", "execute_command", "command" } ->
               "run_command"
          [] name \in { "disconnect", "network_disconnect" } -> "disconnect"
          [] name \in { "reconnect", "network_reconnect" } -> "reconnect"
          [] OTHER -> name
  IN
  [name \in { "access_request", "radius_request", "run_command",
              "execute_command", "command", "code", "packet_loss",
              "disconnect", "network_disconnect", "reconnect",
              "network_reconnect" } |->
     LET n == def_of(name) IN
     CASE n = "access_request" ->
            [declared |-> { "source", "target", "secret", "username",
                            "password", "logger" },
             co_varnames |-> { "source", "target", "secret", "username",
                               "password", "logger", "command" }]
       [] n = "run_command" ->
            [declared |-> { "source", "command", "logger", "test_name",
                            "detach" },
             co_varnames |-> { "source", "command", "logger", "test_name",
                               "detach", "pattern", "matches", "match",
                               "full_container_name" }]
       [] n = "code" ->
            [declared |-> { "block", "source", "logger" },
             co_varnames |-> { "block", "source", "logger",
                               "indented_block", "wrapped_code",
                               "local_vars", "e" }]
       [] n = "packet_loss" ->
            [declared |-> { "source", "interface", "loss", "logger" },
             co_varnames |-> { "source", "interface", "loss", "logger",
                               "result" }]
       [] n = "disconnect" ->
            [declared |-> { "network", "targets" },
             co_varnames |-> { "args", "kw" }]
       [] n = "reconnect" ->
            \* `for target in targets`: target is a local variable
            [declared |-> { "network", "targets" },
             co_varnames |-> { "network", "targets", "target" }]]

\* params[key] = value
SetParam(params, key, value) ==
  Dict([k \in DOMAIN params \cup { key } |->
          IF k = key THEN value ELSE params[k]])

\* build_action(func, params, host) of parse_test_configs(config, test_name):
\* the parameters dict after the call, or the exception raised
build_action(func, params, host, test_name) ==
  LET p1 == IF "source" \in func.co_varnames
            THEN SetParam(params, "source", test_name \o "-" \o host \o "-1")
            ELSE params
  IN IF "target" \in func.co_varnames /\ "target" \notin DOMAIN p1
     THEN [exc |-> "ValueError", params |-> p1]
     ELSE LET p2 == IF "target" \in func.co_varnames
                    THEN SetParam(p1, "target",
                                  test_name \o "-" \o p1["target"] \o "-1")
                    ELSE p1
              p3 == IF "test_name" \in func.co_varnames
                    THEN SetParam(p2, "test_name", test_name)
                    ELSE p2
          IN [exc |-> "none", params |-> p3]

\* the loop body over host_config["actions"]: an unknown action is skipped
\* with a warning, a known one is built
ParseAction ==
  /\ act.pc = "config"
  /\ IF act.name \notin DOMAIN EVENTS_MAP
     THEN act' = [act EXCEPT !.pc = "skipped"]
     ELSE LET r == build_action(EVENTS_MAP[act.name], act.params, act.host,
                                act.test_name)
          IN act' = [act EXCEPT !.pc = IF r.exc = "none" THEN "built"
                                       ELSE r.exc,
                                !.params = r.params]
  /\ UNCHANGED << validatorVars, delivered, orchVars, listenerVars,
                  buildVars, vctor, rng, runVars >>

\* the action names of the model: the events and one unknown name
ActionNames == DOMAIN EVENTS_MAP \cup { "nope" }

\* the parameters dicts of the model: with or without a target
ActionParams ==
  { <<>>, "target" :> "srv", "target" :> "peer",
    ("target" :> "srv") @@ ("network" :> "net") }

ActionInit ==
  /\ \E name \in ActionNames, config \in ActionParams,
        host \in { "h1", "h2" }, test_name \in { "t-c", "u-c" } :
       act = [pc |-> "config", name |-> name, config |-> config,
              params |-> config, host |-> host, test_name |-> test_name]
  /\ vctor = "constructed"
  /\ rng = NoRange
  /\ RunIdle
  /\ NoValidator
  /\ OrchIdle
  /\ ListenerIdle
  /\ BuildIdle

ActionSpec == ActionInit /\ [][ParseAction]_vars

\* the same loop body when parse_test_configs runs again on the same
\* in-memory configuration, for the test of another compose file:
\* action.get(action_name, {}) is the dict the first parse wrote into
ParseAgain ==
  /\ act.pc = "built"
  /\ \E test_name \in { "t-d", "u-c" } :
       LET r == build_action(EVENTS_MAP[act.name], act.params, act.host,
                             test_name)
       IN act' = [act EXCEPT !.pc = IF r.exc = "none" THEN "rebuilt"
                                    ELSE r.exc,
                             !.params = r.params,
                             !.test_name = test_name]
  /\ UNCHANGED << validatorVars, delivered, orchVars, listenerVars,
                  buildVars, vctor, rng, runVars >>

\* one configuration dict parsed for a first test and then for a second
ReparseSpec == ActionInit /\ [][ParseAction \/ ParseAgain]_vars

(***************************************************************************)
(* rules.py: within_range called on the strings over a small alphabet.     *)
(***************************************************************************)
\* characters of a string passed to the range rule
MaxStr == 3

RangeChars == { "7", "2", "0", ":", "a" }

RangeStrings == UNION { [1..k -> RangeChars] : k \in 0..MaxStr }

\* within_range(minimum, maximum, logger, string) is called and returns
ApplyRange ==
  /\ rng.pc = "call"
  /\ rng' = [rng EXCEPT !.pc = "returned",
                        !.ret = within_range(rng.minimum, rng.maximum,
                                             rng.string)]
  /\ UNCHANGED << validatorVars, delivered, orchVars, listenerVars,
                  buildVars, vctor, act, runVars >>

RangeInit ==
  /\ \E string \in RangeStrings,
        bounds \in { << 5, 15 >>, << 0, 7 >>, << 20, 80 >> } :
       rng = [pc |-> "call", minimum |-> bounds[1], maximum |-> bounds[2],
              string |-> string, ret |-> FALSE]
  /\ vctor = "constructed"
  /\ act = NoAction
  /\ RunIdle
  /\ NoValidator
  /\ OrchIdle
  /\ ListenerIdle
  /\ BuildIdle

RangeSpec == RangeInit /\ [][ApplyRange]_vars

(***************************************************************************)
(* The State that owns the Validator: Pending -> Running -> Completed or   *)
(* TimedOut.  The Validator never resolves the completion future, it only  *)
(* reads done() (Validator.py:224); the State computes "every failed list  *)
(* is empty" after the validate calls and resolves the future Completed at *)
(* that point, and its timeout resolves the future TimedOut.  The State    *)
(* runs in the same event loop as start_validating: it looks at the        *)
(* tracking, and its timeout elapses, only while the consumption loop is   *)
(* suspended, that is never between two messages the loop takes from the   *)
(* queue without suspending.  The completion signal is a single-assignment *)
(* future: a resolution of a resolved future is refused and changes        *)
(* nothing.  The report of the State is get_results_str at the resolution. *)
(***************************************************************************)
FailedSetsEmpty == \A a \in DOMAIN failed_rules : failed_rules[a] = <<>>

\* a completion signal that a second resolution overwrites
set_result_overwrites(fut, outcome) == [fut |-> outcome, exc |-> "none"]

\* Future.set_result on the completion signal: InvalidStateError, and no
\* change, when the future is already resolved
set_result(fut, outcome) ==
  IF fut = "pending" THEN [fut |-> outcome, exc |-> "none"]
  ELSE [fut |-> fut, exc |-> "InvalidStateError"]

\* the path `path` of the State `run` resolves the completion future
StateResolves(run, outcome, path) ==
  LET r == set_result(state_completed, outcome)
  IN /\ state_completed' = r.fut
     /\ state_run' =
          IF r.exc = "none"
          THEN [run EXCEPT
                  !.pc = outcome,
                  !.nresolved = @ + 1,
                  !.path = path,
                  !.at = Len(delivered),
                  !.results =
                    get_results_str(rules_map, passed_rules, failed_rules)]
          ELSE [run EXCEPT !.refused = @ + 1]

\* the State starts: its actions begin, its timeout starts to run
StateRun ==
  /\ state_run.pc = "Pending"
  /\ state_run' = [state_run EXCEPT !.pc = "Running", !.timer = "armed"]
  /\ UNCHANGED << rules_map, passed_rules, failed_rules, nexc, nevents, last,
                  state_completed, msg_queue, vpc, delivered, orchVars,
                  listenerVars, buildVars, vctor, act, rng, test_run,
                  test_exit >>

\* validate calls were made since the State last looked at the tracking
CheckDue == state_run.pc # "Pending" /\ state_run.checked < Len(delivered)

\* the State looks at the tracking once the consumption loop has let go of
\* the thread, and resolves the future when every failed list is empty
StateCheck ==
  /\ CheckDue
  /\ vpc # "running"
  /\ IF FailedSetsEmpty
     THEN StateResolves([state_run EXCEPT !.checked = Len(delivered)],
                        "Completed", "validation")
     ELSE /\ state_run' = [state_run EXCEPT !.checked = Len(delivered)]
          /\ UNCHANGED state_completed
  /\ UNCHANGED << rules_map, passed_rules, failed_rules, nexc, nevents, last,
                  msg_queue, vpc, delivered, orchVars, listenerVars,
                  buildVars, vctor, act, rng, test_run,
                  test_exit >>

\* the timeout of the State elapses
StateTimeout ==
  /\ state_run.timer = "armed"
  /\ vpc # "running"
  /\ StateResolves([state_run EXCEPT !.timer = "elapsed"],
                   "TimedOut", "timeout")
  /\ UNCHANGED << rules_map, passed_rules, failed_rules, nexc, nevents, last,
                  msg_queue, vpc, delivered, orchVars, listenerVars,
                  buildVars, vctor, act, rng, test_run,
                  test_exit >>

\* the listener and the consumption loop of a State that has started
StateListens ==
  /\ state_run.pc # "Pending"
  /\ \/ \E attribute \in Attributes, value \in LoopValues :
          Send(attribute, value)
     \/ StartValidating
     \/ LoopIteration
     \/ Resume

StateNext ==
  \/ StateRun
  \/ StateCheck
  \/ StateTimeout
  \/ StateListens

\* the rule maps of the State specification: rules on `status` only
StateRuleMaps == { rmap \in RuleMaps : DOMAIN rmap \subseteq {"status"} }

StateInit ==
  /\ \E rmap \in StateRuleMaps : ValidatorInit(rmap)
  /\ nevents = 0
  /\ state_completed = "pending"
  /\ msg_queue = <<>>
  /\ vpc = "idle"
  /\ delivered = <<>>
  /\ OrchIdle
  /\ ListenerIdle
  /\ BuildIdle
  /\ ExtraIdle

StateSpec == StateInit /\ [][StateNext]_vars

\* the consumption loop, holding the thread, ends or suspends in get()
LoopYields ==
  /\ state_run.pc # "Pending"
  /\ state_completed # "pending" \/ msg_queue = <<>>
  /\ LoopIteration

\* the consumption loop, woken or holding the thread, takes the head of the
\* queue: the step of Resume or LoopIteration that validates a message
LoopTakes ==
  /\ state_run.pc # "Pending"
  /\ \/ vpc = "woken"
     \/ vpc = "running" /\ state_completed = "pending" /\ msg_queue # <<>>
  /\ msg_queue' = Tail(msg_queue)

\* the event loop runs what is ready: the State starts, the consumption
\* loop runs on when it holds the thread or was woken, and the time of the
\* timeout passes
StateLiveSpec ==
  /\ StateInit
  /\ [][StateNext]_vars
  /\ WF_vars(StateRun)
  /\ WF_vars(StateTimeout)
  /\ WF_vars(LoopYields)
  /\ WF_msg_queue(LoopTakes)

(***************************************************************************)
(* The Test that runs the States generate_states returned.  Test.run walks *)
(* its list: it starts the next State, with a Validator and a queue of its *)
(* own, waits until that State has resolved, ends at a State that timed    *)
(* out and declares success when the list is exhausted.  The per-test      *)
(* timeout ends the Test whatever State is in progress.                    *)
(***************************************************************************)
AllCompleted(resolved) ==
  \A i \in 1..Len(resolved) : resolved[i] = "Completed"

\* the rule map of each State of the Tests: one required pattern rule on
\* `status`
StateRules == "status" :> << build_rule(CfgPatOK) >>

\* Test.run starts the next State of its list: a fresh Validator, a fresh
\* completion future and an empty queue
TestStartsState ==
  /\ test_run.pc \in {"built", "running"}
  /\ test_run.cur = "idle"
  /\ Len(test_run.started) < Len(test_run.states)
  /\ test_run' =
       [test_run EXCEPT
          !.pc = "running",
          !.cur = "running",
          !.started =
            Append(@, test_run.states[Len(test_run.started) + 1])]
  /\ state_run' = NoState
  /\ rules_map' = StateRules
  /\ passed_rules' = InitPassedRules(StateRules)
  /\ failed_rules' = InitFailedRules(StateRules)
  /\ nexc' = 0
  /\ last' = NoCall(InitPassedRules(StateRules), InitFailedRules(StateRules))
  /\ nevents' = 0
  /\ state_completed' = "pending"
  /\ msg_queue' = <<>>
  /\ vpc' = "idle"
  /\ delivered' = <<>>
  /\ UNCHANGED << orchVars, listenerVars, buildVars, vctor, act, rng,
                  test_exit >>

\* the State in progress: it starts, its listener and its consumption loop
\* run, it looks at the tracking, its timeout elapses
TestStateRuns ==
  /\ test_run.pc = "running"
  /\ test_run.cur = "running"
  /\ \/ StateRun
     \/ StateCheck
     \/ StateTimeout
     \/ /\ state_run.pc # "Pending"
        /\ \/ \E value \in LoopValues : Send("status", value)
           \/ StartValidating
           \/ LoopIteration
           \/ Resume

\* Test.run going on to the next State whatever the outcome of the State
\* that resolved
TestStateResolves_ignores_timeout ==
  /\ test_run.pc = "running"
  /\ test_run.cur = "running"
  /\ state_run.pc \in {"Completed", "TimedOut"}
  /\ vpc # "running"
  /\ test_run' =
       [test_run EXCEPT
          !.cur = "idle",
          !.resolved = Append(@, state_run.pc)]
  /\ UNCHANGED << validatorVars, delivered, orchVars, listenerVars,
                  buildVars, vctor, act, rng, state_run,
                  test_exit >>

\* the State in progress has resolved and Test.run resumes; a State that
\* timed out ends the Test
TestStateResolves ==
  /\ test_run.pc = "running"
  /\ test_run.cur = "running"
  /\ state_run.pc \in {"Completed", "TimedOut"}
  /\ vpc # "running"
  /\ test_run' =
       [test_run EXCEPT
          !.pc = IF state_run.pc = "TimedOut" THEN "failed" ELSE @,
          !.cur = "idle",
          !.resolved = Append(@, state_run.pc)]
  /\ UNCHANGED << validatorVars, delivered, orchVars, listenerVars,
                  buildVars, vctor, act, rng, state_run,
                  test_exit >>

\* the list is exhausted: the Test declares success
TestPasses ==
  /\ test_run.pc \in {"built", "running"}
  /\ test_run.cur = "idle"
  /\ Len(test_run.started) = Len(test_run.states)
  /\ test_run' = [test_run EXCEPT !.pc = "passed"]
  /\ UNCHANGED << validatorVars, delivered, orchVars, listenerVars,
                  buildVars, vctor, act, rng, state_run,
                  test_exit >>

\* the timeout of the Test elapses: its remaining work is cancelled
TestTimeout ==
  /\ test_run.pc = "running"
  /\ vpc # "running"
  /\ test_run' =
       [test_run EXCEPT
          !.pc = "failed",
          !.cur = IF @ = "running" THEN "cancelled" ELSE @]
  /\ UNCHANGED << validatorVars, delivered, orchVars, listenerVars,
                  buildVars, vctor, act, rng, state_run,
                  test_exit >>

TestNext ==
  \/ TestStartsState
  \/ TestStateRuns
  \/ TestStateResolves
  \/ TestPasses
  \/ TestTimeout

\* two states in the declared order
CfgSequence ==
  [state_order |-> "sequence",
   states |-> << StateCfg("s1", TRUE, "none", "known"),
                 StateCfg("s2", TRUE, "none", "known") >>]

\* the configurations of the Tests that run: every trigger names a known
\* condition, so that the Validator of each State can be constructed
TestRunConfigs ==
  { config \in TestConfigs \cup { CfgSequence } :
      \A i \in DOMAIN config.states : config.states[i].condition = "known" }

\* build_tests, lines 126-141: the Test gets the list generate_states
\* returned; no Test is built when generate_states raised
TestInit ==
  /\ \E config \in TestRunConfigs,
        seed \in { NoSeed } \cup { << n >> : n \in Seeds },
        generated \in Generated :
       LET r == generate_states(config, seed, generated)
       IN /\ r.exc = "none"
          /\ test_run = [pc |-> "built", config |-> config, seed |-> seed,
                         generated |-> generated, states |-> r.states,
                         cur |-> "idle", started |-> <<>>,
                         resolved |-> <<>>]
  /\ state_run = NoState
  /\ test_exit = NoExit
  /\ vctor = "constructed"
  /\ act = NoAction
  /\ rng = NoRange
  /\ NoValidator
  /\ OrchIdle
  /\ ListenerIdle
  /\ BuildIdle

TestSpec == TestInit /\ [][TestNext]_vars

(***************************************************************************)
(* The end of Test.run, with the listener of the State in progress.  On    *)
(* each of its exit paths (success, State timeout, Test timeout,           *)
(* cancellation by cleanup_and_shutdown) the Test awaits stop() on the     *)
(* listener.  Listener.stop has no suspension point; FileListener.stop     *)
(* awaits listener_source.close() (line 332) before its rename, and every  *)
(* cleanup_and_shutdown invocation calls cancel() on every task but        *)
(* itself, the task of a Test that is in stop() included.                  *)
(***************************************************************************)
\* cleanup_and_shutdown invocations that can cancel the task of the Test:
\* the signal handler's and the one of a completion callback
MaxCancels == 2

ExitPaths == {"success", "state_timeout", "test_timeout", "cancelled"}

\* the listener variables stop() leaves alone
stopFrame == << lkind, lpc, ready_future, conns, written, enq_log, stop_pc >>

\* stop() from its rename on, lines 335-344, resp. Listener.stop as a
\* whole, lines 84-106
StopFinishes(path) ==
  /\ StopEnds
  /\ test_exit' = [test_exit EXCEPT !.pc = "exited", !.path = path,
                                    !.ret = StopResult.ret,
                                    !.attempted = TRUE]

\* Test.run leaves by `path` and awaits stop(): FileListener.stop with a
\* listener_source suspends in its close(), any other stop() runs to its
\* end
TestExits(path) ==
  /\ vpc # "running"
  /\ test_exit.pc = "running"
  /\ IF lkind = "file" /\ listener_source.st # "None"
     THEN /\ listener_source' = Closing(listener_source)
          /\ test_exit' =
               [test_exit EXCEPT
                  !.pc = "closing", !.path = path,
                  !.cancels = IF path = "cancelled" THEN 1 ELSE 0]
          /\ UNCHANGED << fs, stop_log, changes, batch, opened, readline >>
     ELSE /\ StopFinishes(path)
          /\ UNCHANGED listener_source
  /\ UNCHANGED stopFrame
  /\ UNCHANGED << trackingVars, nevents, msg_queue, vpc, orchVars, buildVars,
                  vctor, act, rng, state_run, test_run >>

\* close() has returned: stop() resumes at line 334
StopResumes ==
  /\ vpc # "running"
  /\ test_exit.pc = "closing"
  /\ StopFinishes(test_exit.path)
  /\ listener_source' = Closed(listener_source)
  /\ UNCHANGED stopFrame
  /\ UNCHANGED << trackingVars, nevents, msg_queue, vpc, orchVars, buildVars,
                  vctor, act, rng, state_run, test_run >>

\* cleanup_and_shutdown, lines 58-60, run by one more invocation while
\* stop() is suspended: task.cancel() cancels the future of the close() the
\* task waits on, whatever becomes of the close() itself, and schedules the
\* step of the task
ShutdownCancelsStop ==
  /\ vpc # "running"
  /\ test_exit.pc \in {"closing", "cancelling"}
  /\ test_exit.cancels < MaxCancels
  /\ test_exit' = [test_exit EXCEPT !.pc = "cancelling", !.cancels = @ + 1]
  /\ UNCHANGED listenerVars
  /\ UNCHANGED << trackingVars, nevents, msg_queue, vpc, orchVars, buildVars,
                  vctor, act, rng, state_run, test_run >>

\* the step of the cancelled task: CancelledError is raised at line 332 and
\* leaves stop() and Test.run
StopCancelled ==
  /\ vpc # "running"
  /\ test_exit.pc = "cancelling"
  /\ test_exit' = [test_exit EXCEPT !.pc = "exited",
                                    !.ret = "CancelledError"]
  /\ UNCHANGED listenerVars
  /\ UNCHANGED << trackingVars, nevents, msg_queue, vpc, orchVars, buildVars,
                  vctor, act, rng, state_run, test_run >>

ExitNext ==
  \/ /\ test_exit.pc = "running"
     /\ \/ SocketListener_start
        \/ ServeForever
        \/ FileListener_start
        \/ \E line \in HostLines : HostAppend(line)
        \/ WatchStep
        \/ OpenRuns
        \/ Open
        \/ ReadRuns
        \/ ReadLine
  \/ \E path \in ExitPaths : TestExits(path)
  \/ StopResumes
  \/ ShutdownCancelsStop
  \/ StopCancelled

ExitSpec == ListenerInit /\ [][ExitNext]_vars

(***************************************************************************)
(* Properties.                                                             *)
(***************************************************************************)
PassedAt(a) == ListAt(passed_rules, a)
FailedAt(a) == ListAt(failed_rules, a)
RulesOf(a) == ListAt(rules_map, a)
LabelOf(rule) == StrEntry(rule.friendly_str)
Entries(list) == { list[i] : i \in 1..Len(list) }
Labels(list) == { e \in Entries(list) : e.kind = "str" }
MinOf(S) == CHOOSE k \in S : \A m \in S : k <= m
SameDict(d, e) == DOMAIN d = DOMAIN e /\ \A k \in DOMAIN d : d[k] = e[k]

\* the calls made by calling the first k of `kids` on v, one after another
RECURSIVE ChildCalls(_, _, _)
ChildCalls(kids, v, k) ==
  IF k = 0 THEN <<>>
  ELSE ChildCalls(kids, v, k - 1) \o Call(kids[k], v).calls

\* C1: in every state reached by validate calls on a constructed Validator
\* no label is in both passed[attribute] and failed[attribute], and the
\* labels tracked for an attribute (in passed or failed) never change: a
\* label only moves between the two lists.
C1_LabelInOneOfPassedFailed ==
  \A a \in Attributes :
    /\ Labels(PassedAt(a)) \cap Labels(FailedAt(a)) = {}
    /\ Labels(PassedAt(a)) \cup Labels(FailedAt(a))
         = Labels(ListAt(last.passed0, a)) \cup Labels(ListAt(last.failed0, a))

\* C2: validate on an attribute that has no rules (absent from the rule
\* map or mapped to an empty list) fails with MissingRuleError and leaves
\* passed and failed as they were.
C2_NoRulesIsMissingRule ==
  (last.op = "validate" /\ RulesOf(last.attribute) = <<>>)
    => /\ last.ret = "MissingRuleError"
       /\ SameDict(passed_rules, last.passed0)
       /\ SameDict(failed_rules, last.failed0)

\* C3: if validate(attribute, v1) marked a rule's label passed and the next
\* call validate(attribute, v2) has a non-matching value (no rule of the
\* attribute accepts v2, so the rule rejects it), then after the second
\* call the label is in failed[attribute] and not in passed[attribute].
C3_PassThenRejectMovesToFailed ==
  [][ \A a \in Attributes :
        ( /\ last.op = "validate" /\ last.attribute = a /\ last.ret = "True"
          /\ nevents' = nevents + 1
          /\ last'.op = "validate" /\ last'.attribute = a
          /\ last'.ret = "False" )
        => LET L == LabelOf(RulesOf(a)[Len(last.evals)])
           IN /\ InList(L, FailedAt(a)')
              /\ ~InList(L, PassedAt(a)')
    ]_vars

\* the attribute's only rule is never_fire (or fail)
OnlyNeverFire(a) ==
  /\ Len(RulesOf(a)) = 1
  /\ SeededPassed(RulesOf(a)[1])

\* C4 as stated: for an attribute whose only rule is never_fire (or fail)
\* the label is in passed from construction on and no validate call ever
\* moves it to failed.
C4_NeverFireNeverFails ==
  \A a \in Attributes :
    OnlyNeverFire(a) =>
      /\ InList(LabelOf(RulesOf(a)[1]), PassedAt(a))
      /\ ~InList(LabelOf(RulesOf(a)[1]), FailedAt(a))

\* C4 amended: for an attribute whose only rule is never_fire (or fail) the
\* label is in passed (and not in failed) at construction and stays there
\* over validate calls for other attributes; every validate call for the
\* attribute itself returns false and leaves the label in failed and out of
\* passed.
C4_NeverFireFailsWhenAttributeFires ==
  \A a \in Attributes :
    OnlyNeverFire(a) =>
      LET L == LabelOf(RulesOf(a)[1])
      IN /\ last.op = "init" =>
              InList(L, PassedAt(a)) /\ ~InList(L, FailedAt(a))
         /\ (last.op = "validate" /\ last.attribute = a) =>
              /\ last.ret = "False"
              /\ InList(L, FailedAt(a))
              /\ ~InList(L, PassedAt(a))
         /\ (last.op = "validate" /\ last.attribute # a) =>
              /\ PassedAt(a) = ListAt(last.passed0, a)
              /\ FailedAt(a) = ListAt(last.failed0, a)

\* a never_fire-only attribute has just received its first event: the label
\* was in passed before the call
C4_Witness ==
  \E a \in Attributes :
    /\ OnlyNeverFire(a)
    /\ last.op = "validate" /\ last.attribute = a
    /\ InList(LabelOf(RulesOf(a)[1]), ListAt(last.passed0, a))
    /\ InList(LabelOf(RulesOf(a)[1]), FailedAt(a))

\* C5: the label of a may_ rule is never in passed nor in failed.
C5_AdvisoryNeverTracked ==
  \A a \in Attributes :
    \A i \in 1..Len(RulesOf(a)) :
      RulesOf(a)[i].may =>
        /\ ~InList(LabelOf(RulesOf(a)[i]), PassedAt(a))
        /\ ~InList(LabelOf(RulesOf(a)[i]), FailedAt(a))

\* C6: a validate call that returns true changes the tracking only by
\* marking the first matching rule passed and removing that label from
\* failed: nothing is added to failed, nothing else is removed from passed,
\* and the rules after the first matching rule are not evaluated.
C6_TrueOnlyMarksFirstMatch ==
  (last.op = "validate" /\ last.ret = "True") =>
    LET a == last.attribute
        k == Len(last.evals)
        L == LabelOf(RulesOf(a)[k])
        p0 == Entries(ListAt(last.passed0, a))
        f0 == Entries(ListAt(last.failed0, a))
    IN /\ k = MinOf({ j \in 1..Len(RulesOf(a)) :
                        Call(RulesOf(a)[j], last.value).ret = "True" })
       /\ Entries(PassedAt(a)) = p0 \cup {L}
       /\ Entries(FailedAt(a)) = f0 \ {L}
       /\ \A b \in Attributes \ {a} :
            /\ PassedAt(b) = ListAt(last.passed0, b)
            /\ FailedAt(b) = ListAt(last.failed0, b)

\* C7: when an `all` rule raises the single-rule-failure signal during
\* validate, what validate records in failed[attribute] is a label string,
\* the label of the failing child.
C7_SignalRecordedAsChildLabel ==
  last.op = "validate" =>
    LET a == last.attribute
    IN /\ \A e \in Entries(FailedAt(a)) \ Entries(ListAt(last.failed0, a)) :
            e.kind = "str"
       /\ \A j \in 1..Len(last.evals) :
            last.evals[j].ret = "Raise" =>
              \E e \in Entries(FailedAt(a)) :
                e.kind = "str" /\ "all: " \o e.text = last.evals[j].msg

\* C9: an `any` rule called on a value returns true at the first child that
\* accepts the value, having called no later child, and returns plain
\* false, raising nothing, when no child accepts.
C9_AnyReturnsAtFirstAccepting ==
  last.op = "validate" =>
    \A j \in 1..Len(last.evals) :
      LET rule == RulesOf(last.attribute)[j]
          kids == rule.methods
          e == last.evals[j]
          accepting == { k \in 1..Len(kids) :
                           Call(kids[k], last.value).ret = "True" }
      IN rule.func = "any_pass" =>
           IF accepting # {}
           THEN /\ e.ret = "True"
                /\ e.calls = <<rule.friendly_str>>
                               \o ChildCalls(kids, last.value, MinOf(accepting))
           ELSE e.ret = "False"

\* C10: an `all` rule called on a value calls its children in order, stops
\* at the first child that returns false and raises the single-rule-failure
\* signal carrying that child's label ("all: " and the label), calling no
\* later child; it returns true only when every child returned true.
C10_AllStopsAtFirstFalse ==
  last.op = "validate" =>
    \A j \in 1..Len(last.evals) :
      LET rule == RulesOf(last.attribute)[j]
          kids == rule.methods
          e == last.evals[j]
          nottrue == { k \in 1..Len(kids) :
                         Call(kids[k], last.value).ret # "True" }
      IN rule.func = "all_pass" =>
           IF nottrue = {}
           THEN /\ e.ret = "True"
                /\ e.calls = <<rule.friendly_str>>
                               \o ChildCalls(kids, last.value, Len(kids))
           ELSE LET k == MinOf(nottrue)
                IN /\ e.ret = "Raise"
                   /\ Call(kids[k], last.value).ret = "False" =>
                        e.msg = "all: " \o kids[k].friendly_str
                   /\ e.calls = <<rule.friendly_str>>
                                  \o ChildCalls(kids, last.value, k)

\* an `all` rule with children [true, false, true] has been called: it
\* raised for the second child
C10_Witness ==
  /\ last.op = "validate"
  /\ \E j \in 1..Len(last.evals) :
       LET rule == RulesOf(last.attribute)[j]
           kids == rule.methods
       IN /\ rule.func = "all_pass"
          /\ Len(kids) = 3
          /\ Call(kids[1], last.value).ret = "True"
          /\ Call(kids[2], last.value).ret = "False"
          /\ Call(kids[3], last.value).ret = "True"
          /\ last.evals[j].ret = "Raise"
          /\ last.evals[j].msg = "all: " \o kids[2].friendly_str

\* C8: once the completion future is resolved, start_validating returns
\* without needing a further event: whenever the future is resolved and the
\* coroutine has not returned, the coroutine itself can take a step (it is
\* not suspended until the listener enqueues something).
C8_ResolvedLoopNeedsNoEvent ==
  (state_completed # "pending" /\ vpc # "returned") => ENABLED ValidatorStep

(***************************************************************************)
(* Orchestration: run_tests, main and cleanup_and_shutdown.                *)
(***************************************************************************)
\* some cleanup_and_shutdown task runs its first step, in which it cancels
\* the tasks of the loop
ShutdownStarts ==
  \E k \in DOMAIN shutdown_task :
    shutdown_task[k] = "pending" /\ shutdown_task'[k] \in {"gathering", "done"}

\* C11: an exception raised by one Test never cancels a sibling Test: a
\* running Test task is cancelled only by the orchestrated shutdown, never
\* because another Test of run_tests raised.
C11_TestErrorDoesNotCancelSiblings ==
  [][\A g \in DOMAIN tg_tasks : \A t \in DOMAIN tg_tasks[g] :
       (tg_tasks[g][t] = "running" /\ tg_tasks'[g][t] = "cancelling")
         => ShutdownStarts]_vars

\* C12: absent a termination signal, cleanup_and_shutdown starts only after
\* every Test built for the run, of every compose file, has completed.
C12_ShutdownAfterEveryTestCompleted ==
  [][(ShutdownStarts /\ shutdown_task[0] = "none" /\ SignalsReady = {})
       => \A g \in DOMAIN tg_tasks : AllFinished(g)]_vars

(***************************************************************************)
(* Listeners.                                                              *)
(***************************************************************************)
\* the items the listener enqueued from source src, in order
RECURSIVE ItemsOf(_, _)
ItemsOf(log, src) ==
  IF log = <<>> THEN <<>>
  ELSE (IF Head(log).src = src THEN << Head(log).item >> ELSE <<>>)
         \o ItemsOf(Tail(log), src)

RECURSIVE AllItems(_)
AllItems(log) ==
  IF log = <<>> THEN <<>> ELSE << Head(log).item >> \o AllItems(Tail(log))

\* the wire format "<attribute> <value>": the pair of a line, cut at its
\* first space; a line without a space is malformed
Malformed(line) == \A i \in 1..Len(line) : line[i] # " "

WirePair(line) ==
  LET i == MinOf({ k \in 1..Len(line) : line[k] = " " })
  IN << Text(SubSeq(line, 1, i - 1)), SubSeq(line, i + 1, Len(line)) >>

RECURSIVE WirePairs(_)
WirePairs(lines) ==
  IF lines = <<>> THEN <<>>
  ELSE (IF Malformed(Head(lines)) THEN <<>> ELSE << WirePair(Head(lines)) >>)
         \o WirePairs(Tail(lines))

\* the lines the listener has read from source src so far
ReadLines(src) ==
  IF src = 0 THEN SubSeq(written[0], 1, listener_source.pos)
  ELSE SubSeq(written[src], 1, conns[src].nread)

Sources == IF lkind = "socket" THEN DOMAIN conns ELSE {0}

\* C13: start() resolves the ready signal only once the listener can
\* receive events, and every well-formed line written to the destination
\* after that is enqueued: once the listener has nothing left to do, the
\* items enqueued from each source are the pairs of the well-formed lines
\* written to it.
C13_ReadyThenEveryLineEnqueued ==
  /\ ready_future = "done" => lpc \in {"serving"} \cup WatchLoop
  /\ (vpc # "running" /\ ~ENABLED ListenerStep) =>
       \A src \in Sources : ItemsOf(enq_log, src) = WirePairs(written[src])

\* C14: a malformed line is dropped without raising and without enqueuing
\* anything: no connection handler ends with an exception, and what was
\* enqueued from a source is exactly the pairs of the well-formed lines
\* read from it, the ones after a malformed line included.
C14_MalformedLineDroppedQuietly ==
  /\ \A c \in DOMAIN conns : conns[c].st # "ValueError"
  /\ lpc # "ValueError"
  /\ \A src \in Sources : ItemsOf(enq_log, src) = WirePairs(ReadLines(src))

\* C15: the lines read from one connection or file are enqueued in the
\* order received, each cut at its first space only, and the Validator is
\* handed them in queue order: what was validated, followed by what is
\* still queued, is what the listener enqueued, and the items of each
\* source are the pairs of the well-formed lines read from it, in order.
C15_LinesValidatedInOrderReceived ==
  /\ delivered \o msg_queue = AllItems(enq_log)
  /\ \A src \in Sources :
       ItemsOf(enq_log, src) = WirePairs(ReadLines(src))

\* two lines of one connection, the second with a space in its value, were
\* read and validated in order while another connection delivered nothing
C15_Witness ==
  /\ lkind = "socket"
  /\ written[1] = << LineOK, LineSpaced >>
  /\ delivered = << WirePair(LineOK), WirePair(LineSpaced) >>
  /\ delivered[2][2] = << "X", ":", "9", " ", "z" >>

\* C16: a permission error while removing a stale path or binding the
\* destination never leaves start() as an exception; start() returns
\* without resolving the ready signal.
C16_PermissionErrorNeverRaised ==
  /\ lpc # "PermissionError"
  /\ (lkind = "socket" /\ ~fs.writable /\ lpc # "idle") =>
       (lpc = "returned" /\ ready_future = "pending")

\* C17: stop() is idempotent: after the first call the destination path is
\* absent, any further call returns success and changes nothing, and the
\* file listener leaves the file it consumed at the backup path.
C17_StopLeavesNoDestination ==
  \A i \in DOMAIN stop_log :
    LET e == stop_log[i]
    IN /\ e.after.dest = "absent"
       /\ i > 1 => (e.ret = "True" /\ e.after = e.before)
       /\ (lkind = "file" /\ e.before.dest = "file") =>
            (e.after.bak = "file" /\ e.after.bak_lines = e.before.lines)

\* C17 as amended: a stop() call that returns True leaves the destination
\* path absent; a call that finds it absent returns True and changes
\* nothing; and when the file listener's stop() returns True, the file that
\* was at the destination is at the backup path, with its lines.
C17_SuccessfulStopLeavesNoDestination ==
  \A i \in DOMAIN stop_log :
    LET e == stop_log[i]
    IN /\ e.ret = "True" => e.after.dest = "absent"
       /\ e.before.dest = "absent" => (e.ret = "True" /\ e.after = e.before)
       /\ (lkind = "file" /\ e.ret = "True" /\ e.before.dest = "file") =>
            /\ e.after.bak = "file"
            /\ e.after.bak_lines = e.before.lines
            /\ e.after.bak_gen = e.before.gen

\* the file listener stopped twice after reading a file a host wrote: the
\* first call backed the file up, the second found nothing to do
C17_Witness ==
  /\ lkind = "file"
  /\ Len(stop_log) = 2
  /\ stop_log[1].before.dest = "file"
  /\ stop_log[1].before.lines = << LineOK >>
  /\ enq_log # <<>>
  /\ stop_log[1].ret = "True"
  /\ stop_log[2].ret = "True"
  /\ fs.bak_lines = << LineOK >>

\* the Tests built so far, over all compose files
RECURSIVE Flatten(_)
Flatten(lists) ==
  IF lists = <<>> THEN <<>> ELSE Head(lists) \o Flatten(Tail(lists))

AllTests == Flatten(created_tasks) \o tests

\* the Test of test file f and compose file c is in the task of c
Built(f, c) ==
  /\ c \in DOMAIN created_tasks
  /\ \E k \in DOMAIN created_tasks[c] : created_tasks[c][k].test_file = f

Reported(f) == \E k \in DOMAIN main_errors : main_errors[k].test_file = f

\* a test configuration with a configuration error: an unknown rule kind, a
\* missing required action parameter, an incomplete state configuration
ConfigError(config) ==
  \E i \in DOMAIN config.states :
    \/ config.states[i].condition = "unknown"
    \/ config.states[i].action = "no_target"
    \/ ~config.states[i].verify

\* C18: for every caller-supplied seed, 0 included, two builds of the same
\* test with state_order random and that seed produce the same State
\* ordering, and the seed logged is the seed used.
C18_SameSeedSameStateOrder ==
  \A i, j \in DOMAIN build_log :
    ( /\ build_log[i].seed # NoSeed
      /\ build_log[i].test_file = build_log[j].test_file
      /\ main_args.configs[build_log[i].test_file].config.state_order
           = "random"
      /\ build_log[i].exc = "none"
      /\ build_log[j].exc = "none" )
    => /\ build_log[i].states = build_log[j].states
       /\ build_log[i].logged = build_log[i].used

\* C19: the Tests built from distinct (test configuration file, compose
\* file) pairs have pairwise distinct listener destination paths.
C19_ListenerPathsPairwiseDistinct ==
  \A i, j \in DOMAIN AllTests :
    ( \/ AllTests[i].test_file # AllTests[j].test_file
      \/ AllTests[i].compose_file # AllTests[j].compose_file )
    => AllTests[i].listener_dest # AllTests[j].listener_dest

\* C20: once main has processed its configurations, every test
\* configuration with a configuration error was reported and skipped, and
\* every other test configuration was built, for every compose file, and
\* is run.
C20_ConfigErrorSkipsOnlyOffendingTest ==
  bpc \in { "run_forever", "closed" } =>
    \A c \in DOMAIN main_args.compose, f \in DOMAIN main_args.configs :
      IF ConfigError(main_args.configs[f].config)
        THEN ~Built(f, c) /\ Reported(f)
      ELSE Built(f, c) /\ bpc = "run_forever"

\* C21: the predicate of an unknown condition is built without an error and
\* is false for every value, and a Validator is constructed over a rule map
\* that contains it and validates the events of its attribute.
C21_UnknownConditionDegradesSilently ==
  /\ build_rule(CfgUnknown).func # "AttributeError"
  /\ \A value \in Values : Call(build_rule(CfgUnknown), value).ret = "False"
  /\ vctor # "AttributeError"

\* the rules of the attributes `keys` of a rule map that satisfy P, counted
\* with multiplicity
CountRules(rmap, keys, P(_)) ==
  Cardinality({ s \in UNION { { << a, i >> : i \in 1..Len(rmap[a]) } :
                                a \in keys } :
                  P(rmap[s[1]][s[2]]) })

IsNeverFire(rule) == ~rule.may /\ rule.cond \in {"never_fire", "fail"}
IsAdvisory(rule) == rule.may
IsRequired(rule) == ~IsNeverFire(rule) /\ ~IsAdvisory(rule)

\* the attributes with a rule that is tracked
TrackedKeys(rmap) ==
  { a \in DOMAIN rmap : \E i \in 1..Len(rmap[a]) : ~IsAdvisory(rmap[a][i]) }

\* C22: at construction every required rule's label is in failed, every
\* never_fire/fail rule's label is in passed and advisory rules are in
\* neither; the report rendered before any event counts each never_fire
\* rule as matched and each required rule as not matched (with the advisory
\* rules of the tracked attributes).
C22_SeedingAndFirstReport ==
  last.op = "init" =>
    /\ \A a \in DOMAIN rules_map : \A i \in 1..Len(rules_map[a]) :
         LET rule == rules_map[a][i]
             label == StrEntry(rule.friendly_str)
         IN /\ IsRequired(rule) =>
                 /\ InList(label, ListAt(failed_rules, a))
                 /\ ~InList(label, ListAt(passed_rules, a))
            /\ IsNeverFire(rule) =>
                 /\ InList(label, ListAt(passed_rules, a))
                 /\ ~InList(label, ListAt(failed_rules, a))
            /\ IsAdvisory(rule) =>
                 /\ ~InList(label, ListAt(passed_rules, a))
                 /\ ~InList(label, ListAt(failed_rules, a))
    /\ LET report == get_results_str(rules_map, passed_rules, failed_rules)
       IN /\ report.matched =
               CountRules(rules_map, DOMAIN rules_map, IsNeverFire)
          /\ report.total - report.matched =
               CountRules(rules_map, DOMAIN rules_map, IsRequired)
                 + CountRules(rules_map, TrackedKeys(rules_map), IsAdvisory)

C22_Witness ==
  /\ last.op = "init"
  /\ rules_map = ("status" :> << build_rule(CfgFail), build_rule(CfgPatOK) >>)
  /\ get_results_str(rules_map, passed_rules, failed_rules)
       = [matched |-> 1, total |-> 2]

\* how often x occurs in list
Occurrences(x, list) == Cardinality({ i \in 1..Len(list) : list[i] = x })

\* C23: a validate call that repeats the attribute and value of a call that
\* passed leaves the tracking as that call left it, and the label of the
\* rule that passed occurs exactly once in passed[attribute].
C23_RepeatedPassKeepsTracking ==
  [][ ( /\ last.op = "validate"
        /\ last.ret = "True"
        /\ nevents' = nevents + 1
        /\ last'.attribute = last.attribute
        /\ last'.value = last.value )
      => /\ last'.ret = "True"
         /\ passed_rules' = passed_rules
         /\ failed_rules' = failed_rules
         /\ Occurrences(
              StrEntry(rules_map[last.attribute][Len(last'.evals)]
                         .friendly_str),
              ListAt(passed_rules', last.attribute)) = 1 ]_vars

\* the attribute has no rules: validate raises MissingRuleError, or finds
\* an empty list
NoRulesFor(attribute) ==
  attribute \notin DOMAIN rules_map \/ rules_map[attribute] = <<>>

\* C24: when the loop takes an event whose attribute has no rules, the
\* tracking is unchanged and the loop goes on to its next pass; the loop
\* suspends only on an empty queue and ends only once the completion future
\* is resolved, so the events queued after it are validated.
C24_MissingRuleIsNotAnError ==
  [][ /\ ( /\ Len(delivered') = Len(delivered) + 1
           /\ NoRulesFor(Head(msg_queue)[1]) )
         => /\ passed_rules' = passed_rules
            /\ failed_rules' = failed_rules
            /\ vpc' = "running"
            /\ msg_queue' = Tail(msg_queue)
      /\ vpc' = "waiting" => msg_queue' = <<>>
      /\ vpc' = "returned" => state_completed' # "pending" ]_vars

C24_Witness ==
  /\ Len(delivered) = 2
  /\ delivered[1][1] \notin DOMAIN rules_map
  /\ delivered[2][1] \in DOMAIN rules_map
  /\ last.ret = "True"
  /\ state_completed = "pending"

\* the signature of the action declares a `target` parameter
DeclaresTarget(name) == "target" \in EVENTS_MAP[name].declared

\* C25: for an action whose signature declares `target`, a missing target
\* is a configuration error and a present one is rewritten to
\* "<test_name>-<target>-1"; for an action that declares no `target`, no
\* target is demanded and none is injected.
C25_TargetExactlyWhenDeclared ==
  (act.pc \in { "built", "ValueError" }) =>
    IF DeclaresTarget(act.name)
    THEN IF "target" \in DOMAIN act.config
         THEN /\ act.pc = "built"
              /\ act.params["target"]
                   = act.test_name \o "-" \o act.config["target"] \o "-1"
         ELSE act.pc = "ValueError"
    ELSE /\ act.pc = "built"
         /\ "target" \in DOMAIN act.params <=> "target" \in DOMAIN act.config
         /\ "target" \in DOMAIN act.config =>
              act.params["target"] = act.config["target"]

\* the portion of a string after its last colon, the string itself when it
\* has no colon
AfterLastColon(string) ==
  LET parts == str_split(string) IN parts[Len(parts)]

\* C26: the range rule parses the bare string, or the portion after the
\* last colon, and returns true exactly when that portion is numeric and
\* min <= parsed <= max.
C26_RangeParsesAfterLastColon ==
  rng.pc = "returned" =>
    LET portion == AfterLastColon(rng.string)
    IN rng.ret <=> ( /\ ParsesAsFloat(portion)
                     /\ Between(rng.minimum, float(portion), rng.maximum) )

\* C27: when a cleanup_and_shutdown invocation has called loop.stop(),
\* every task it cancelled has finished, and so has every run_tests task
\* and every Test task of the run.
C27_LoopStopsAfterCancelledTasksEnd ==
  /\ \A i \in DOMAIN gathers :
       shutdown_task[gathers[i].k] = "done" =>
         \A task \in gathers[i].children :
           StatusOf(Loop, task) \in Finished \cup {"failed"}
  /\ loop_state \in {"stopping", "stopped"} =>
       \A g \in DOMAIN test_task :
         /\ test_task[g] \in {"done", "failed", "cancelled"}
         /\ \A t \in DOMAIN tg_tasks[g] : tg_tasks[g][t] \in Finished

\* C27 witness: the loop was stopped after a run_tests task, one of its
\* Tests and another shutdown task were cancelled.
C27_Witness ==
  /\ loop_state = "stopped"
  /\ \E g \in DOMAIN test_task :
       /\ test_task[g] = "cancelled"
       /\ \E t \in DOMAIN tg_tasks[g] : tg_tasks[g][t] = "cancelled"
  /\ \E k \in DOMAIN shutdown_task : shutdown_task[k] = "cancelled"

\* the State of the end-to-end scenarios: one required pattern rule on
\* `status`
OneRequiredRule == rules_map = ("status" :> << build_rule(CfgPatOK) >>)

\* the tracking of a Validator over rmap after the validate calls `events`
RECURSIVE TrackingAfter(_, _)
TrackingAfter(rmap, events) ==
  IF events = <<>>
  THEN [passed |-> InitPassedRules(rmap), failed |-> InitFailedRules(rmap),
        nexc |-> 0, evals |-> <<>>]
  ELSE LET n == Len(events)
           st0 == TrackingAfter(rmap, SubSeq(events, 1, n - 1))
       IN validate(rmap, events[n][1], events[n][2],
                   [st0 EXCEPT !.evals = <<>>]).st

\* every failed list was empty right after the n-th validate call
EmptyAfter(n) ==
  LET failed == TrackingAfter(rules_map, SubSeq(delivered, 1, n)).failed
  IN \A a \in DOMAIN failed : failed[a] = <<>>

\* the report of the tracking right after the n-th validate call
ReportAfter(n) ==
  LET st == TrackingAfter(rules_map, SubSeq(delivered, 1, n))
  IN get_results_str(rules_map, st.passed, st.failed)

\* C28: a State has resolved Completed only with every failed list empty
\* at that moment, and TimedOut only when the failed lists were at no
\* moment all empty after a validate call made before the timeout elapsed;
\* its report is the one of the tracking at the resolution: 1/1 for one
\* required rule and a matching event, 0/1 for no event at all.
C28_CompletedExactlyWhenFailedEmpty ==
  /\ state_run.pc = "Completed" => EmptyAfter(state_run.at)
  /\ state_run.pc = "TimedOut" =>
       \A n \in 1..state_run.at : ~EmptyAfter(n)
  /\ state_run.pc \in {"Completed", "TimedOut"} =>
       /\ state_run.results = ReportAfter(state_run.at)
       /\ (OneRequiredRule /\ state_run.pc = "Completed")
            => state_run.results = [matched |-> 1, total |-> 1]
       /\ (OneRequiredRule /\ state_run.at = 0)
            => state_run.results = [matched |-> 0, total |-> 1]

Declared(config) == StateNames(parse_test_configs(config).configs)

C31_ListenerReleasedOnEveryExit ==
  test_exit.pc = "exited" =>
    IF lkind = "socket" THEN fs.dest # "socket"
    ELSE listener_source.st # "open" /\ test_exit.attempted

\* C32: after a validate call in which an `all` rule accepted the event,
\* with no label left in failed[attribute] (every required rule of the
\* attribute is passed), failed[attribute] has no entry at all: the
\* failures recorded from the single-rule-failure signal of earlier events
\* are cleared too.
C32_AllFailureClearedByLaterPass ==
  ( /\ last.op = "validate"
    /\ last.ret = "True"
    /\ rules_map[last.attribute][Len(last.evals)].cond = "all"
    /\ \A i \in 1..Len(ListAt(failed_rules, last.attribute)) :
         failed_rules[last.attribute][i].kind # "str" )
  => ListAt(failed_rules, last.attribute) = <<>>

\* C33: failed[attribute] never holds more entries than there are rules
\* registered for the attribute.
C33_FailedBoundedByRules ==
  \A a \in DOMAIN failed_rules : Len(failed_rules[a]) <= Len(rules_map[a])

\* C37: the report never counts more matched rules than rules, and its
\* failure count, total minus matched, is zero exactly when no attribute
\* has an entry in failed.
C37_ReportTotalsConsistent ==
  LET r == get_results_str(rules_map, passed_rules, failed_rules)
  IN /\ r.matched <= r.total
     /\ (r.total - r.matched = 0)
          <=> (\A a \in DOMAIN failed_rules : failed_rules[a] = <<>>)

\* C34: once the completion signal has resolved the consumption loop makes
\* no validate call, and the tracking no longer changes.
C34_NoValidateAfterResolution ==
  [][ state_completed # "pending"
        => /\ delivered' = delivered
           /\ passed_rules' = passed_rules
           /\ failed_rules' = failed_rules ]_vars

\* every run_tests task main created has ended
AllTestsFinished ==
  \A g \in DOMAIN test_task : test_task[g] \in {"done", "failed", "cancelled"}

\* C35: once every test has finished, or a termination signal has arrived,
\* the event loop is eventually stopped.
C35_LoopEventuallyStops ==
  (loop_state = "running" /\ (AllTestsFinished \/ shutdown_task[0] # "none"))
    ~> (loop_state = "stopped")

\* C36: once a stop() call has returned, the listener puts nothing more on
\* the message queue, from a connection or from a change of the file.
C36_NoEnqueueAfterStop ==
  [][ stop_log # <<>> => enq_log' = enq_log ]_vars

\* C38: every build gives each state of the configuration a timeout, the
\* one its verify section declares or else 15, and a state without a verify
\* section raises nothing.
C38_EveryStateHasTimeout ==
  \A i \in DOMAIN build_log :
    LET config == main_args.configs[build_log[i].test_file].config
    IN /\ build_log[i].exc # "AttributeError"
       /\ build_log[i].exc = "none" =>
            \A k \in DOMAIN config.states :
              /\ config.states[k].name \in DOMAIN build_log[i].timeouts
              /\ build_log[i].timeouts[config.states[k].name] =
                   IF "timeout" \in DOMAIN config.states[k]
                     THEN config.states[k].timeout ELSE 15

\* C39: when the same in-memory configuration is parsed for a second test,
\* the target injected is "<test_name>-<declared target>-1" with the target
\* the configuration declared, and the second parse finds the parameters
\* as they were declared.
C39_SecondParseUsesDeclaredTarget ==
  ( /\ act.pc = "rebuilt"
    /\ DeclaresTarget(act.name)
    /\ "target" \in DOMAIN act.config )
  => act.params["target"]
       = act.test_name \o "-" \o act.config["target"] \o "-1"

====
